---- MODULE Spec2Model ----
(***************************************************************************)
(* A model of candle-core's Tensor (src/candle-core/src/tensor.rs): the    *)
(* heap of Tensor_ objects, the Arc<RwLock<Storage>> blocks they share,    *)
(* the process-wide TensorId counter and the operation surface that        *)
(* derives new tensors from existing ones.                                 *)
(*                                                                         *)
(* Layout, Shape, Storage and BackpropOp live in other files of the crate  *)
(* (layout.rs, shape.rs, storage.rs, op.rs); their operators below follow  *)
(* the written specification of those components.                          *)
(***************************************************************************)
EXTENDS Integers, Sequences, FiniteSets, TLC

VARIABLES
    tensors,    \* heap of Tensor_ objects, in creation order (index = address)
    storages,   \* heap of Arc<RwLock<Storage>> blocks: [dtype, device, data]
    COUNTER,    \* static COUNTER of TensorId::new
    handles,    \* tensors the caller holds a handle to (results returned so far)
    lineage,    \* per tensor: the handle and call it was derived by, whether the call
                \* reached the backend and how many storages it allocated
    result,     \* outcome of the last operation call
    guards,     \* lock guards currently held: [th, t, mode]
    nonew,      \* calls so far that returned no new tensor (failed, or an existing handle)
    pending,    \* per thread: TensorId fetched for a tensor still under construction
    issued,     \* TensorIds in the order fetch_add handed them out
    frame,      \* locals of the running arange_step call
    waiting,    \* per thread: the lock request it is blocked in, if any
    policy      \* whether the platform's RwLock lets a waiting writer hold back readers

vars ==
    <<tensors, storages, COUNTER, handles, lineage, result, nonew, guards, pending, issued,
      frame, waiting, policy>>

(***************************************************************************)
(* Bounds of the model.                                                    *)
(***************************************************************************)
MaxTensors == 3          \* operations are enabled while the heap holds fewer tensors
UsizeBits == 8           \* width given to usize
MaxNoNew == 1            \* calls of a run that may return no new tensor
NumThreads == 2          \* threads of the lock and identifier specifications
MaxIds == 4              \* identifiers handed out in the identifier specification
MaxGuards == 2           \* lock guards held at one time in the lock specification
MaxRequests == 3         \* lock requests granted or waiting at one time
DTypeBits == 3           \* width given to the integer dtype of arange_step

UsizeMod == 2 ^ UsizeBits
UsizeMax == UsizeMod - 1
DTypeMod == 2 ^ DTypeBits

DTypes == {"F32", "U8"}
Devices == {"Cpu", "Cuda"}
Threads == 1..NumThreads

(***************************************************************************)
(* Sequence helpers.                                                       *)
(***************************************************************************)
RECURSIVE Prod(_)
Prod(s) == IF s = <<>> THEN 1 ELSE Head(s) * Prod(Tail(s))

RECURSIVE SumSeq(_)
SumSeq(s) == IF s = <<>> THEN 0 ELSE Head(s) + SumSeq(Tail(s))

Range(s) == {s[i] : i \in DOMAIN s}

RemoveAt(s, i) == SubSeq(s, 1, i - 1) \o SubSeq(s, i + 1, Len(s))

InsertAt(s, i, v) == SubSeq(s, 1, i - 1) \o <<v>> \o SubSeq(s, i, Len(s))

(***************************************************************************)
(* Shape and Layout (spec section 3 and 4.1).  Dimension indexes are       *)
(* 0-based as in the source; sequences are 1-based.                        *)
(***************************************************************************)
ElemCount(shape) == Prod(shape)

\* canonical row-major strides of a shape
StrideContiguous(shape) ==
    [i \in 1..Len(shape) |-> Prod(SubSeq(shape, i + 1, Len(shape)))]

LayoutContiguousWithOffset(shape, off) ==
    [shape |-> shape, stride |-> StrideContiguous(shape), start_offset |-> off]

LayoutContiguous(shape) == LayoutContiguousWithOffset(shape, 0)

IsContiguous(l) == l.stride = StrideContiguous(l.shape)

\* narrow fails with a range error when start + len exceeds the dimension's size
LayoutNarrow(l, dim, start, len) ==
    IF dim >= Len(l.shape) THEN [ok |-> FALSE, err |-> "DimOutOfRange", layout |-> l]
    ELSE IF start + len > l.shape[dim + 1]
    THEN [ok |-> FALSE, err |-> "NarrowInvalidArgs", layout |-> l]
    ELSE [ok |-> TRUE, err |-> "none",
          layout |-> [shape |-> [l.shape EXCEPT ![dim + 1] = len],
                      stride |-> l.stride,
                      start_offset |-> l.start_offset + l.stride[dim + 1] * start]]

LayoutTranspose(l, dim1, dim2) ==
    IF dim1 >= Len(l.shape) \/ dim2 >= Len(l.shape)
    THEN [ok |-> FALSE, err |-> "UnexpectedNumberOfDims", layout |-> l]
    ELSE [ok |-> TRUE, err |-> "none",
          layout |-> [shape |-> [l.shape EXCEPT ![dim1 + 1] = l.shape[dim2 + 1],
                                                 ![dim2 + 1] = l.shape[dim1 + 1]],
                      stride |-> [l.stride EXCEPT ![dim1 + 1] = l.stride[dim2 + 1],
                                                   ![dim2 + 1] = l.stride[dim1 + 1]],
                      start_offset |-> l.start_offset]]

IsPermutation(idxs, rank) ==
    /\ Len(idxs) = rank
    /\ \A i \in 0..(rank - 1) : \E j \in DOMAIN idxs : idxs[j] = i

LayoutPermute(l, idxs) ==
    IF ~IsPermutation(idxs, Len(l.shape))
    THEN [ok |-> FALSE, err |-> "InvalidArgument", layout |-> l]
    ELSE [ok |-> TRUE, err |-> "none",
          layout |-> [shape |-> [i \in 1..Len(idxs) |-> l.shape[idxs[i] + 1]],
                      stride |-> [i \in 1..Len(idxs) |-> l.stride[idxs[i] + 1]],
                      start_offset |-> l.start_offset]]

\* aligning from the trailing dimension, every source dimension equals the target
\* dimension or is 1; broadcast dimensions and new leading dimensions get stride 0
BroadcastCompatible(src, dst) ==
    /\ Len(dst) >= Len(src)
    /\ \A i \in 1..Len(src) :
          LET d == dst[i + Len(dst) - Len(src)] IN src[i] = d \/ src[i] = 1

LayoutBroadcastAs(l, shape) ==
    IF ~BroadcastCompatible(l.shape, shape)
    THEN [ok |-> FALSE, err |-> "BroadcastIncompatibleShapes", layout |-> l]
    ELSE LET added == Len(shape) - Len(l.shape) IN
         [ok |-> TRUE, err |-> "none",
          layout |-> [shape |-> shape,
                      stride |-> [i \in 1..Len(shape) |->
                                     IF i <= added THEN 0
                                     ELSE IF shape[i] = l.shape[i - added]
                                          THEN l.stride[i - added] ELSE 0],
                      start_offset |-> l.start_offset]]

\* buffer offset of the k-th logical element (k from 0) in row-major logical order
OffsetOf(l, k) ==
    LET cs == StrideContiguous(l.shape) IN
    l.start_offset
      + SumSeq([i \in 1..Len(l.shape) |-> ((k \div cs[i]) % l.shape[i]) * l.stride[i]])

\* the finite sequence of buffer offsets visiting every logical element
StridedIndex(l) == [k \in 1..ElemCount(l.shape) |-> OffsetOf(l, k - 1)]

\* Dim::to_index for a usize dimension
DimToIndex(shape, dim) == dim < Len(shape)

\* Dim::to_index_plus_one for a usize dimension
DimToIndexPlusOne(shape, dim) == dim <= Len(shape)

(***************************************************************************)
(* The world an operation runs in: the two heaps, the identifier counter,  *)
(* the number of backend calls made so far by the running operation and    *)
(* the ordinal of the backend call that fails (0: none fails).             *)
(***************************************************************************)
World(failAt) ==
    [tensors |-> tensors, storages |-> storages, counter |-> COUNTER,
     backend |-> 0, failAt |-> failAt]

Ok(w, t) == [w |-> w, ok |-> TRUE, t |-> t, err |-> "none", info |-> <<>>]

Err(w, e) == [w |-> w, ok |-> FALSE, t |-> 0, err |-> e, info |-> <<>>]

\* an error variant together with the fields it carries
ErrInfo(w, e, info) == [w |-> w, ok |-> FALSE, t |-> 0, err |-> e, info |-> info]

(***************************************************************************)
(* Storage and device backend (spec section 4.2).  A backend call either   *)
(* yields a storage or fails with BackendExecutionFailure.                 *)
(***************************************************************************)
NoStorage == [dtype |-> "F32", device |-> "Cpu", data |-> <<>>]

BackendCall(w, st) ==
    LET w1 == [w EXCEPT !.backend = @ + 1] IN
    IF w.backend + 1 = w.failAt
    THEN [w |-> w1, ok |-> FALSE, err |-> "BackendExecutionFailure", st |-> NoStorage]
    ELSE [w |-> w1, ok |-> TRUE, err |-> "none", st |-> st]

\* device.zeros(shape, dtype) / device.ones(shape, dtype)
DeviceFill(w, shape, dtype, device, v) ==
    BackendCall(w, [dtype |-> dtype, device |-> device,
                    data |-> [k \in 1..ElemCount(shape) |-> v]])

DeviceZeros(w, shape, dtype, device) == DeviceFill(w, shape, dtype, device, 0)

\* device.storage(array) / device.storage_owned(data)
DeviceStorage(w, data, dtype, device) ==
    BackendCall(w, [dtype |-> dtype, device |-> device, data |-> data])

\* copy the logical contents of src, respecting its layout, to dst at dst_offset
CopyStridedSrc(w, src, dst, dst_offset, src_l) ==
    LET idx == StridedIndex(src_l)
        n == Len(idx)
    IN  BackendCall(w, [dst EXCEPT !.data =
            [i \in DOMAIN dst.data |->
                IF i - 1 >= dst_offset /\ i - 1 < dst_offset + n
                THEN src.data[idx[i - dst_offset] + 1]
                ELSE dst.data[i]]])

\* Storage::try_clone: a copy of the whole buffer
TryClone(w, src) == BackendCall(w, src)

\* element conversion of a dtype cast
Cast(v, dtype) ==
    IF dtype = "U8" THEN (IF v < 0 THEN 0 ELSE IF v > 255 THEN 255 ELSE v) ELSE v

\* Storage::to_dtype: a contiguous storage holding the cast logical elements
StorageToDType(w, src, src_l, dtype) ==
    LET idx == StridedIndex(src_l) IN
    BackendCall(w, [dtype |-> dtype, device |-> src.device,
                    data |-> [k \in 1..Len(idx) |-> Cast(src.data[idx[k] + 1], dtype)]])

\* transfer of a storage to another device
StorageToDevice(w, src, device) ==
    BackendCall(w, [dtype |-> src.dtype, device |-> device, data |-> src.data])

(***************************************************************************)
(* BackpropOp (op.rs): the edge is recorded iff some operand is tracked.   *)
(***************************************************************************)
NoneOp == [kind |-> "None", args |-> <<>>]

TrackOp(w, t) == w.tensors[t].is_variable \/ w.tensors[t].op.kind # "None"

BackpropOpNew(w, args, kind) ==
    IF \E i \in DOMAIN args : TrackOp(w, args[i])
    THEN [kind |-> kind, args |-> args]
    ELSE NoneOp

(***************************************************************************)
(* Tensor construction.                                                    *)
(***************************************************************************)
\* identifiers handed out downwards from the largest one
TensorIdNewDescending(c) == [id |-> UsizeMax - c, next |-> (c + 1) % UsizeMod]

TensorIdNewSkip(c) == [id |-> c, next |-> c]

\* TensorId::new: COUNTER.fetch_add(1, Relaxed)
TensorIdNew(c) == [id |-> c, next |-> (c + 1) % UsizeMod]

\* Tensor(Arc::new(Tensor_ { id, storage, layout, op, is_variable, dtype, device }))
NewTensor(w, id, st, layout, op, is_variable, dtype, device) ==
    Ok([w EXCEPT !.tensors = Append(@,
            [id |-> id, storage |-> st, layout |-> layout, op |-> op,
             is_variable |-> is_variable, dtype |-> dtype, device |-> device])],
       Len(w.tensors) + 1)

\* from_storage: a fresh Arc<RwLock<Storage>> and a contiguous layout
from_storage(w, st, shape, op, is_variable) ==
    LET n == TensorIdNew(w.counter)
        w1 == [w EXCEPT !.counter = n.next, !.storages = Append(@, st)]
    IN  NewTensor(w1, n.id, Len(w1.storages), LayoutContiguous(shape), op,
                  is_variable, st.dtype, st.device)

\* a Tensor_ literal that clones the receiver's Arc<RwLock<Storage>>
ViewOf(w, self, layout, op) ==
    LET t == w.tensors[self]
        n == TensorIdNew(w.counter)
    IN  NewTensor([w EXCEPT !.counter = n.next], n.id, t.storage, layout, op,
                  FALSE, t.dtype, t.device)

\* ZerosThenCopy zeroing the receiver's own buffer before the strided copy
ZerosThenCopyInPlace(w, self, shape, op, is_variable) ==
    LET t == w.tensors[self]
        z == DeviceZeros(w, shape, t.dtype, t.device)
    IN  IF ~z.ok THEN Err(z.w, z.err)
        ELSE LET w2 == [z.w EXCEPT !.storages[t.storage] = z.st]
                 c == CopyStridedSrc(w2, w.storages[t.storage], z.st, 0, t.layout)
             IN  IF ~c.ok THEN Err(c.w, c.err)
                 ELSE from_storage(c.w, c.st, shape, op, is_variable)

\* the shared tail of contiguous, make_var and the copying branch of reshape
ZerosThenCopy(w, self, shape, op, is_variable) ==
    LET t == w.tensors[self]
        z == DeviceZeros(w, shape, t.dtype, t.device)
    IN  IF ~z.ok THEN Err(z.w, z.err)
        ELSE LET c == CopyStridedSrc(z.w, w.storages[t.storage], z.st, 0, t.layout) IN
             IF ~c.ok THEN Err(c.w, c.err)
             ELSE from_storage(c.w, c.st, shape, op, is_variable)

new_impl(w, data, shape, dtype, device, is_variable) ==
    IF Len(data) # ElemCount(shape) THEN Err(w, "ShapeMismatch")
    ELSE LET s == DeviceStorage(w, data, dtype, device) IN
         IF ~s.ok THEN Err(s.w, s.err)
         ELSE from_storage(s.w, s.st, shape, NoneOp, is_variable)

from_vec_impl(w, data, shape, dtype, device, is_variable) ==
    IF Len(data) # ElemCount(shape) THEN Err(w, "ShapeMismatch")
    ELSE LET s == DeviceStorage(w, data, dtype, device) IN
         IF ~s.ok THEN Err(s.w, s.err)
         ELSE from_storage(s.w, s.st, shape, NoneOp, is_variable)

broadcast_as(w, self, shape) ==
    LET t == w.tensors[self]
        n == TensorIdNew(w.counter)
        l == LayoutBroadcastAs(t.layout, shape)
    IN  IF ~l.ok THEN Err([w EXCEPT !.counter = n.next], l.err)
        ELSE ViewOf(w, self, l.layout, BackpropOpNew(w, <<self>>, "Broadcast"))

\* fill_impl wrapping the scalar storage in the full shape without broadcasting
fill_implNoBroadcast(w, shape, dtype, device, is_variable, v) ==
    LET s == DeviceFill(w, IF is_variable THEN shape ELSE <<>>, dtype, device, v) IN
    IF ~s.ok THEN Err(s.w, s.err)
    ELSE from_storage(s.w, s.st, shape, NoneOp, is_variable)

\* zeros_impl and ones_impl (fill value v)
fill_impl(w, shape, dtype, device, is_variable, v) ==
    IF is_variable
    THEN LET s == DeviceFill(w, shape, dtype, device, v) IN
         IF ~s.ok THEN Err(s.w, s.err)
         ELSE from_storage(s.w, s.st, shape, NoneOp, is_variable)
    ELSE LET s == DeviceFill(w, <<>>, dtype, device, v) IN
         IF ~s.ok THEN Err(s.w, s.err)
         ELSE LET f == from_storage(s.w, s.st, <<>>, NoneOp, is_variable) IN
              broadcast_as(f.w, f.t, shape)

(***************************************************************************)
(* View and copy operations of Tensor.                                     *)
(***************************************************************************)
\* `start + len` on usize: a debug build panics on overflow, a release build wraps
narrow(w, self, dim, start, len, build) ==
    LET t == w.tensors[self]
        dims == t.layout.shape
    IN  IF ~DimToIndex(dims, dim) THEN Err(w, "DimOutOfRange")
        ELSE IF start + len >= UsizeMod /\ build = "debug" THEN Err(w, "Panic")
        ELSE IF (start + len) % UsizeMod > dims[dim + 1] THEN Err(w, "NarrowInvalidArgs")
        ELSE IF start = 0 /\ dims[dim + 1] = len THEN Ok(w, self)
        ELSE LET l == LayoutNarrow(t.layout, dim, start, len) IN
             IF ~l.ok THEN Err(w, l.err)
             ELSE ViewOf(w, self, l.layout, BackpropOpNew(w, <<self>>, "Narrow"))

\* transpose laying the swapped shape out row-major instead of swapping the strides
transposeRowMajor(w, self, dim1, dim2) ==
    LET t == w.tensors[self] IN
    IF ~DimToIndex(t.layout.shape, dim1) \/ ~DimToIndex(t.layout.shape, dim2)
    THEN Err(w, "DimOutOfRange")
    ELSE LET n == TensorIdNew(w.counter)
             l == LayoutTranspose(t.layout, dim1, dim2)
         IN  IF ~l.ok THEN Err([w EXCEPT !.counter = n.next], l.err)
             ELSE ViewOf(w, self,
                         LayoutContiguousWithOffset(l.layout.shape, t.layout.start_offset),
                         BackpropOpNew(w, <<self>>, "Transpose"))

transpose(w, self, dim1, dim2) ==
    LET t == w.tensors[self] IN
    IF ~DimToIndex(t.layout.shape, dim1) \/ ~DimToIndex(t.layout.shape, dim2)
    THEN Err(w, "DimOutOfRange")
    ELSE LET n == TensorIdNew(w.counter)
             l == LayoutTranspose(t.layout, dim1, dim2)
         IN  IF ~l.ok THEN Err([w EXCEPT !.counter = n.next], l.err)
             ELSE ViewOf(w, self, l.layout, BackpropOpNew(w, <<self>>, "Transpose"))

\* the inverse of a permutation given as a sequence of 0-based indexes
InversePermutation(dims) ==
    [i \in 1..Len(dims) |-> (CHOOSE j \in 1..Len(dims) : dims[j] = i - 1) - 1]

\* permute sending source dimension i to position dims[i]
permuteInverse(w, self, dims) ==
    LET t == w.tensors[self] IN
    IF \E i \in DOMAIN dims : ~DimToIndex(t.layout.shape, dims[i])
    THEN Err(w, "DimOutOfRange")
    ELSE IF ~(Len(dims) = Len(t.layout.shape)
              /\ \A i \in 0..(Len(dims) - 1) : i \in Range(dims))
    THEN Err(w, "InvalidArgument")
    ELSE LET n == TensorIdNew(w.counter)
             l == LayoutPermute(t.layout, InversePermutation(dims))
         IN  IF ~l.ok THEN Err([w EXCEPT !.counter = n.next], l.err)
             ELSE ViewOf(w, self, l.layout, BackpropOpNew(w, <<self>>, "Permute"))

permute(w, self, dims) ==
    LET t == w.tensors[self] IN
    IF \E i \in DOMAIN dims : ~DimToIndex(t.layout.shape, dims[i])
    THEN Err(w, "DimOutOfRange")
    ELSE IF ~(Len(dims) = Len(t.layout.shape)
              /\ \A i \in 0..(Len(dims) - 1) : i \in Range(dims))
    THEN Err(w, "InvalidArgument")
    ELSE LET n == TensorIdNew(w.counter)
             l == LayoutPermute(t.layout, dims)
         IN  IF ~l.ok THEN Err([w EXCEPT !.counter = n.next], l.err)
             ELSE ViewOf(w, self, l.layout, BackpropOpNew(w, <<self>>, "Permute"))

detach(w, self) == ViewOf(w, self, w.tensors[self].layout, NoneOp)

\* copy handing out the receiver's own Arc after cloning the buffer
copySharing(w, self) ==
    LET t == w.tensors[self]
        n == TensorIdNew(w.counter)
        c == TryClone([w EXCEPT !.counter = n.next], w.storages[t.storage])
    IN  IF ~c.ok THEN Err(c.w, c.err)
        ELSE NewTensor(c.w, n.id, t.storage, t.layout,
                       BackpropOpNew(w, <<self>>, "Copy"), FALSE, t.dtype, t.device)

copy(w, self) ==
    LET t == w.tensors[self]
        n == TensorIdNew(w.counter)
        c == TryClone([w EXCEPT !.counter = n.next], w.storages[t.storage])
    IN  IF ~c.ok THEN Err(c.w, c.err)
        ELSE LET w1 == [c.w EXCEPT !.storages = Append(@, c.st)] IN
             NewTensor(w1, n.id, Len(w1.storages), t.layout,
                       BackpropOpNew(w, <<self>>, "Copy"), FALSE, t.dtype, t.device)

\* contiguous copying whatever the receiver's layout
contiguousAlwaysCopies(w, self) ==
    ZerosThenCopy(w, self, w.tensors[self].layout.shape,
                  BackpropOpNew(w, <<self>>, "Copy"), FALSE)

contiguous(w, self) ==
    LET t == w.tensors[self] IN
    IF IsContiguous(t.layout) THEN Ok(w, self)
    ELSE ZerosThenCopy(w, self, t.layout.shape, BackpropOpNew(w, <<self>>, "Copy"), FALSE)

make_var(w, self) == ZerosThenCopy(w, self, w.tensors[self].layout.shape, NoneOp, TRUE)

\* reshape taking the copying branch whatever the receiver's layout
reshapeAlwaysCopies(w, self, shape) ==
    LET t == w.tensors[self] IN
    IF ElemCount(shape) # ElemCount(t.layout.shape)
    THEN Err(w, "ShapeMismatchBinaryOp(reshape)")
    ELSE ZerosThenCopy(w, self, shape, BackpropOpNew(w, <<self>>, "Reshape"), FALSE)

\* reshape whose view restarts at offset 0 of the shared buffer
reshapeDropsOffset(w, self, shape) ==
    LET t == w.tensors[self] IN
    IF ElemCount(shape) # ElemCount(t.layout.shape)
    THEN Err(w, "ShapeMismatchBinaryOp(reshape)")
    ELSE LET op == BackpropOpNew(w, <<self>>, "Reshape") IN
         IF IsContiguous(t.layout)
         THEN ViewOf(w, self, LayoutContiguous(shape), op)
         ELSE ZerosThenCopy(w, self, shape, op, FALSE)

\* reshape taking the view branch whatever the receiver's layout
reshapeAlwaysViews(w, self, shape) ==
    LET t == w.tensors[self] IN
    IF ElemCount(shape) # ElemCount(t.layout.shape)
    THEN Err(w, "ShapeMismatchBinaryOp(reshape)")
    ELSE ViewOf(w, self, LayoutContiguousWithOffset(shape, t.layout.start_offset),
                BackpropOpNew(w, <<self>>, "Reshape"))

reshape(w, self, shape) ==
    LET t == w.tensors[self] IN
    IF ElemCount(shape) # ElemCount(t.layout.shape)
    THEN Err(w, "ShapeMismatchBinaryOp(reshape)")
    ELSE LET op == BackpropOpNew(w, <<self>>, "Reshape") IN
         IF IsContiguous(t.layout)
         THEN ViewOf(w, self,
                     LayoutContiguousWithOffset(shape, t.layout.start_offset), op)
         ELSE ZerosThenCopy(w, self, shape, op, FALSE)

squeeze(w, self, dim) ==
    LET dims == w.tensors[self].layout.shape IN
    IF ~DimToIndex(dims, dim) THEN Err(w, "DimOutOfRange")
    ELSE IF dims[dim + 1] = 1 THEN reshape(w, self, RemoveAt(dims, dim + 1))
    ELSE Ok(w, self)

unsqueeze(w, self, dim) ==
    LET dims == w.tensors[self].layout.shape IN
    IF ~DimToIndexPlusOne(dims, dim) THEN Err(w, "DimOutOfRange")
    ELSE reshape(w, self, InsertAt(dims, dim + 1, 1))

\* to_dtype converting the receiver in place
to_dtypeInPlace(w, self, dtype) ==
    LET t == w.tensors[self] IN
    IF t.dtype = dtype THEN Ok(w, self)
    ELSE LET s == StorageToDType(w, w.storages[t.storage], t.layout, dtype) IN
         IF ~s.ok THEN Err(s.w, s.err)
         ELSE Ok([s.w EXCEPT !.storages[t.storage] = s.st,
                             !.tensors[self].dtype = dtype,
                             !.tensors[self].layout = LayoutContiguous(t.layout.shape)],
                 self)

to_dtype(w, self, dtype) ==
    LET t == w.tensors[self] IN
    IF t.dtype = dtype THEN Ok(w, self)
    ELSE LET s == StorageToDType(w, w.storages[t.storage], t.layout, dtype) IN
         IF ~s.ok THEN Err(s.w, s.err)
         ELSE from_storage(s.w, s.st, t.layout.shape,
                           BackpropOpNew(w, <<self>>, "ToDType"), FALSE)

\* to_device keeping the receiver's device tag on the transferred tensor
to_deviceKeepsTag(w, self, device) ==
    LET t == w.tensors[self] IN
    IF t.device = device THEN Ok(w, self)
    ELSE LET s == StorageToDevice(w, w.storages[t.storage], device) IN
         IF ~s.ok THEN Err(s.w, s.err)
         ELSE LET op == BackpropOpNew(w, <<self>>, "ToDevice")
                  n == TensorIdNew(s.w.counter)
                  w1 == [s.w EXCEPT !.counter = n.next, !.storages = Append(@, s.st)]
              IN  NewTensor(w1, n.id, Len(w1.storages), t.layout, op, FALSE,
                            t.dtype, t.device)

to_device(w, self, device) ==
    LET t == w.tensors[self] IN
    IF t.device = device THEN Ok(w, self)
    ELSE LET s == StorageToDevice(w, w.storages[t.storage], device) IN
         IF ~s.ok THEN Err(s.w, s.err)
         ELSE LET op == BackpropOpNew(w, <<self>>, "ToDevice")
                  n == TensorIdNew(s.w.counter)
                  w1 == [s.w EXCEPT !.counter = n.next, !.storages = Append(@, s.st)]
              IN  NewTensor(w1, n.id, Len(w1.storages), t.layout, op, FALSE,
                            t.dtype, device)

\* Layout::contiguous_offsets
ContiguousOffsets(l) ==
    IF IsContiguous(l)
    THEN [some |-> TRUE, o1 |-> l.start_offset,
          o2 |-> l.start_offset + ElemCount(l.shape)]
    ELSE [some |-> FALSE, o1 |-> 0, o2 |-> 0]

\* to_vec2: a slice of the buffer for a contiguous layout, otherwise dim1 * dim2
\* steps of strided_index followed by the assertion that it is exhausted
to_vec2(w, self) ==
    LET t == w.tensors[self]
        st == w.storages[t.storage]
        co == ContiguousOffsets(t.layout)
        idx == StridedIndex(t.layout)
    IN  IF Len(t.layout.shape) # 2 THEN Err(w, "UnexpectedNumberOfDims")
        ELSE LET c == IF t.device = "Cuda" THEN StorageToDevice(w, st, "Cpu")
                      ELSE [w |-> w, ok |-> TRUE, err |-> "none", st |-> st]
                 n == t.layout.shape[1] * t.layout.shape[2]
             IN  IF ~c.ok THEN Err(c.w, c.err)
                 ELSE IF co.some
                 THEN (IF co.o2 > Len(c.st.data) THEN Err(c.w, "Panic") ELSE Ok(c.w, self))
                 ELSE IF Len(idx) < n THEN Err(c.w, "Panic")
                 ELSE IF \E k \in 1..n : idx[k] >= Len(c.st.data) THEN Err(c.w, "Panic")
                 ELSE IF Len(idx) > n THEN Err(c.w, "Panic")
                 ELSE Ok(c.w, self)

\* same_storage: pointer equality of the two Arc<RwLock<Storage>>
same_storage(lhs, rhs) == tensors[lhs].storage = tensors[rhs].storage

(***************************************************************************)
(* Storage kernels of the binary operations (spec section 4.2): the        *)
(* storage layer rejects operands of different device or dtype with a      *)
(* typed error, then invokes the device kernel.                            *)
(***************************************************************************)
\* the elementwise map of a binary operation
BinaryKernel(name, x, y) ==
    CASE name = "add" -> x + y
      [] name = "sub" -> x - y
      [] name = "mul" -> x * y
      [] name = "div" -> x \div y
      [] name = "maximum" -> IF x >= y THEN x ELSE y
      [] name = "minimum" -> IF x <= y THEN x ELSE y

StorageBinaryImpl(w, lhs, rhs, lhs_l, rhs_l, name) ==
    IF lhs.device # rhs.device
    THEN [w |-> w, ok |-> FALSE, err |-> "DeviceMismatchBinaryOp", st |-> NoStorage]
    ELSE IF lhs.dtype # rhs.dtype
    THEN [w |-> w, ok |-> FALSE, err |-> "DTypeMismatchBinaryOp", st |-> NoStorage]
    ELSE LET li == StridedIndex(lhs_l)
             ri == StridedIndex(rhs_l)
         IN  BackendCall(w, [dtype |-> lhs.dtype, device |-> lhs.device,
                             data |-> [k \in 1..Len(li) |->
                                          BinaryKernel(name, lhs.data[li[k] + 1],
                                                       rhs.data[ri[k] + 1])]])

StorageMatmul(w, lhs, rhs, b, m, n, k, lhs_l, rhs_l) ==
    IF lhs.device # rhs.device
    THEN [w |-> w, ok |-> FALSE, err |-> "DeviceMismatchBinaryOp", st |-> NoStorage]
    ELSE IF lhs.dtype # rhs.dtype
    THEN [w |-> w, ok |-> FALSE, err |-> "DTypeMismatchBinaryOp", st |-> NoStorage]
    ELSE LET li == StridedIndex(lhs_l)
             ri == StridedIndex(rhs_l)
             cell(o) ==
                 LET bi == o \div (m * n)
                     i == (o \div n) % m
                     j == o % n
                 IN  SumSeq([l \in 1..k |->
                                lhs.data[li[bi * m * k + i * k + l] + 1]
                                  * rhs.data[ri[bi * k * n + (l - 1) * n + j + 1] + 1]])
         IN  BackendCall(w, [dtype |-> lhs.dtype, device |-> lhs.device,
                             data |-> [o \in 1..(b * m * n) |-> cell(o - 1)]])

\* Shape::broadcast_shape_binary_op: the common shape, dimensions aligned from the
\* trailing one, each pair equal or one of them 1
BroadcastShapeBinaryOp(lhs, rhs) ==
    LET n == IF Len(lhs) > Len(rhs) THEN Len(lhs) ELSE Len(rhs)
        l(i) == IF i > n - Len(lhs) THEN lhs[i - (n - Len(lhs))] ELSE 1
        r(i) == IF i > n - Len(rhs) THEN rhs[i - (n - Len(rhs))] ELSE 1
    IN  IF \A i \in 1..n : l(i) = r(i) \/ l(i) = 1 \/ r(i) = 1
        THEN [ok |-> TRUE, shape |-> [i \in 1..n |-> IF l(i) = 1 THEN r(i) ELSE l(i)]]
        ELSE [ok |-> FALSE, shape |-> <<>>]

\* Shape::broadcast_shape_matmul: the batch dimensions are broadcast, the two
\* trailing matrix dimensions of each operand are kept
BroadcastShapeMatmul(lhs, rhs) ==
    IF Len(lhs) < 2 \/ Len(rhs) < 2
    THEN [ok |-> FALSE, l_shape |-> <<>>, r_shape |-> <<>>]
    ELSE LET bc == BroadcastShapeBinaryOp(SubSeq(lhs, 1, Len(lhs) - 2),
                                          SubSeq(rhs, 1, Len(rhs) - 2))
         IN  IF ~bc.ok THEN [ok |-> FALSE, l_shape |-> <<>>, r_shape |-> <<>>]
             ELSE [ok |-> TRUE,
                   l_shape |-> bc.shape \o SubSeq(lhs, Len(lhs) - 1, Len(lhs)),
                   r_shape |-> bc.shape \o SubSeq(rhs, Len(rhs) - 1, Len(rhs))]

(***************************************************************************)
(* Binary and composite operations of Tensor.                              *)
(***************************************************************************)
\* same_shape_binary_op comparing the element counts of the operands
same_shape_binary_opByCount(w, lhs, rhs) ==
    ElemCount(w.tensors[lhs].layout.shape) = ElemCount(w.tensors[rhs].layout.shape)

same_shape_binary_op(w, lhs, rhs) ==
    w.tensors[lhs].layout.shape = w.tensors[rhs].layout.shape

\* Error::ShapeMismatchBinaryOp { lhs, rhs, op }
ShapeMismatchBinaryOp(w, lhs, rhs, op) ==
    ErrInfo(w, "ShapeMismatchBinaryOp(" \o op \o ")",
            [lhs |-> w.tensors[lhs].layout.shape, rhs |-> w.tensors[rhs].layout.shape,
             op |-> op])

\* binary_op!(fn_name, op_name): add, mul, sub, div, maximum, minimum
binary_op(w, self, rhs, fn_name) ==
    LET a == w.tensors[self]
        b == w.tensors[rhs]
    IN  IF ~same_shape_binary_op(w, self, rhs)
        THEN ShapeMismatchBinaryOp(w, self, rhs, fn_name)
        ELSE LET s == StorageBinaryImpl(w, w.storages[a.storage], w.storages[b.storage],
                                        a.layout, b.layout, fn_name)
             IN  IF ~s.ok THEN Err(s.w, s.err)
                 ELSE from_storage(s.w, s.st, a.layout.shape,
                                   BackpropOpNew(w, <<self, rhs>>, "Binary"), FALSE)

\* binary_op!(add, Add)
add(w, self, rhs) == binary_op(w, self, rhs, "add")

\* broadcast_binary_op with a view made for the left operand only
broadcast_binary_opLhsOnly(w, self, rhs, fn_name, inner_fn_name) ==
    LET ls == w.tensors[self].layout.shape
        rs == w.tensors[rhs].layout.shape
        bc == BroadcastShapeBinaryOp(ls, rs)
    IN  IF ~bc.ok THEN ShapeMismatchBinaryOp(w, self, rhs, fn_name)
        ELSE LET l == IF bc.shape # ls THEN broadcast_as(w, self, bc.shape)
                      ELSE Ok(w, self)
             IN  IF ~l.ok THEN l ELSE binary_op(l.w, l.t, rhs, inner_fn_name)

\* broadcast_binary_op!(fn_name, inner_fn_name)
broadcast_binary_op(w, self, rhs, fn_name, inner_fn_name) ==
    LET ls == w.tensors[self].layout.shape
        rs == w.tensors[rhs].layout.shape
        bc == BroadcastShapeBinaryOp(ls, rs)
    IN  IF ~bc.ok THEN ShapeMismatchBinaryOp(w, self, rhs, fn_name)
        ELSE LET l == IF bc.shape # ls THEN broadcast_as(w, self, bc.shape)
                      ELSE Ok(w, self)
             IN  IF ~l.ok THEN l
                 ELSE LET r == IF bc.shape # rs THEN broadcast_as(l.w, rhs, bc.shape)
                               ELSE Ok(l.w, rhs)
                      IN  IF ~r.ok THEN r ELSE binary_op(r.w, l.t, r.t, inner_fn_name)

\* broadcast_binary_op!(broadcast_add, add)
broadcast_add(w, self, rhs) == broadcast_binary_op(w, self, rhs, "broadcast_add", "add")

\* Storage::cmp: operands of one device and dtype, a u8 storage of 0 and 1
StorageCmp(w, op, lhs, rhs, lhs_l, rhs_l) ==
    IF lhs.device # rhs.device
    THEN [w |-> w, ok |-> FALSE, err |-> "DeviceMismatchBinaryOp", st |-> NoStorage]
    ELSE IF lhs.dtype # rhs.dtype
    THEN [w |-> w, ok |-> FALSE, err |-> "DTypeMismatchBinaryOp", st |-> NoStorage]
    ELSE LET li == StridedIndex(lhs_l)
             ri == StridedIndex(rhs_l)
             holds(x, y) == CASE op = "eq" -> x = y
                              [] op = "lt" -> x < y
         IN  BackendCall(w, [dtype |-> "U8", device |-> lhs.device,
                             data |-> [k \in 1..Len(li) |->
                                          IF holds(lhs.data[li[k] + 1], rhs.data[ri[k] + 1])
                                          THEN 1 ELSE 0]])

cmp(w, self, rhs, op) ==
    LET a == w.tensors[self]
        b == w.tensors[rhs]
    IN  IF ~same_shape_binary_op(w, self, rhs)
        THEN ShapeMismatchBinaryOp(w, self, rhs, "cmp")
        ELSE LET s == StorageCmp(w, op, w.storages[a.storage], w.storages[b.storage],
                                 a.layout, b.layout)
             IN  IF ~s.ok THEN Err(s.w, s.err)
                 ELSE from_storage(s.w, s.st, a.layout.shape,
                                   BackpropOpNew(w, <<self>>, "Cmp"), FALSE)

\* Storage::where_cond: one device, a u8 condition, branches of one dtype
StorageWhereCond(w, c, c_l, t, t_l, f, f_l) ==
    IF c.device # t.device \/ c.device # f.device
    THEN [w |-> w, ok |-> FALSE, err |-> "DeviceMismatchBinaryOp", st |-> NoStorage]
    ELSE IF t.dtype # f.dtype
    THEN [w |-> w, ok |-> FALSE, err |-> "DTypeMismatchBinaryOp", st |-> NoStorage]
    ELSE IF c.dtype # "U8"
    THEN [w |-> w, ok |-> FALSE, err |-> "UnsupportedDTypeForOp", st |-> NoStorage]
    ELSE LET ci == StridedIndex(c_l)
             ti == StridedIndex(t_l)
             fi == StridedIndex(f_l)
         IN  BackendCall(w, [dtype |-> t.dtype, device |-> t.device,
                             data |-> [k \in 1..Len(ci) |->
                                          IF c.data[ci[k] + 1] # 0
                                          THEN t.data[ti[k] + 1] ELSE f.data[fi[k] + 1]]])

where_cond(w, self, on_true, on_false) ==
    LET c == w.tensors[self]
        t == w.tensors[on_true]
        f == w.tensors[on_false]
    IN  IF ~same_shape_binary_op(w, self, on_true)
        THEN ShapeMismatchBinaryOp(w, self, on_true, "where_cond")
        ELSE IF ~same_shape_binary_op(w, self, on_false)
        THEN ShapeMismatchBinaryOp(w, self, on_false, "where_cond")
        ELSE LET s == StorageWhereCond(w, w.storages[c.storage], c.layout,
                                       w.storages[t.storage], t.layout,
                                       w.storages[f.storage], f.layout)
             IN  IF ~s.ok THEN Err(s.w, s.err)
                 ELSE from_storage(s.w, s.st, c.layout.shape,
                                   BackpropOpNew(w, <<self, on_true, on_false>>,
                                                 "WhereCond"), FALSE)

matmul(w, self, rhs) ==
    LET a == w.tensors[self]
        b == w.tensors[rhs]
        a_dims == a.layout.shape
        b_dims == b.layout.shape
        dim == Len(a_dims)
    IN  IF dim < 2 \/ Len(b_dims) # dim
        THEN ShapeMismatchBinaryOp(w, self, rhs, "matmul")
        ELSE LET m == a_dims[dim - 1]
                 k == a_dims[dim]
                 k2 == b_dims[dim - 1]
                 n == b_dims[dim]
                 c_shape == SubSeq(a_dims, 1, dim - 2) \o <<m, n>>
                 batching == Prod(SubSeq(a_dims, 1, dim - 2))
                 batching_b == Prod(SubSeq(b_dims, 1, dim - 2))
             IN  IF k # k2 \/ batching # batching_b
                 THEN ShapeMismatchBinaryOp(w, self, rhs, "matmul")
                 ELSE LET s == StorageMatmul(w, w.storages[a.storage],
                                             w.storages[b.storage], batching, m, n, k,
                                             a.layout, b.layout)
                      IN  IF ~s.ok THEN Err(s.w, s.err)
                          ELSE from_storage(s.w, s.st, c_shape,
                                            BackpropOpNew(w, <<self, rhs>>, "Matmul"),
                                            FALSE)

\* x.broadcast_as(shape)?.contiguous()?
BroadcastContiguous(w, x, shape) ==
    LET v == broadcast_as(w, x, shape) IN
    IF ~v.ok THEN v ELSE contiguous(v.w, v.t)

broadcast_matmul(w, self, rhs) ==
    LET ls == w.tensors[self].layout.shape
        rs == w.tensors[rhs].layout.shape
        bc == BroadcastShapeMatmul(ls, rs)
    IN  IF ~bc.ok THEN Err(w, "ShapeMismatchBinaryOp(broadcast_matmul)")
        ELSE LET l == IF bc.l_shape # ls THEN BroadcastContiguous(w, self, bc.l_shape)
                      ELSE Ok(w, self)
             IN  IF ~l.ok THEN l
                 ELSE LET r == IF bc.r_shape # rs
                               THEN BroadcastContiguous(l.w, rhs, bc.r_shape)
                               ELSE Ok(l.w, rhs)
                      IN  IF ~r.ok THEN r ELSE matmul(r.w, l.t, r.t)

\* the checking loop of cat0 without the comparison of the dimensions after the first
RECURSIVE Cat0CheckRanksOnly(_, _, _)
Cat0CheckRanksOnly(w, args, i) ==
    IF i > Len(args) THEN "none"
    ELSE LET arg0 == w.tensors[args[1]]
             arg == w.tensors[args[i]]
         IN  IF arg.dtype # arg0.dtype THEN "DTypeMismatchBinaryOp(cat)"
             ELSE IF arg.device # arg0.device THEN "DeviceMismatchBinaryOp(cat)"
             ELSE IF Len(arg.layout.shape) # Len(arg0.layout.shape)
             THEN "UnexpectedNumberOfDims"
             ELSE Cat0CheckRanksOnly(w, args, i + 1)

\* the checking loop of cat0: the first violation among the operands, in order
RECURSIVE Cat0Check(_, _, _)
Cat0Check(w, args, i) ==
    IF i > Len(args) THEN "none"
    ELSE LET arg0 == w.tensors[args[1]]
             arg == w.tensors[args[i]]
         IN  IF arg.dtype # arg0.dtype THEN "DTypeMismatchBinaryOp(cat)"
             ELSE IF arg.device # arg0.device THEN "DeviceMismatchBinaryOp(cat)"
             ELSE IF Len(arg.layout.shape) # Len(arg0.layout.shape)
             THEN "UnexpectedNumberOfDims"
             ELSE IF \E d \in 2..Len(arg0.layout.shape) :
                        arg0.layout.shape[d] # arg.layout.shape[d]
             THEN "ShapeMismatchCat"
             ELSE Cat0Check(w, args, i + 1)

\* the fields of the ShapeMismatchCat error of cat0: the first operand that differs
\* from the first one outside dimension 0, and the first dimension where it does
Cat0Mismatch(w, args) ==
    LET first_shape == w.tensors[args[1]].layout.shape
        differs(i, d) ==
            /\ Len(w.tensors[args[i]].layout.shape) = Len(first_shape)
            /\ w.tensors[args[i]].layout.shape[d] # first_shape[d]
        offending == {i \in DOMAIN args : \E d \in 2..Len(first_shape) : differs(i, d)}
        n == CHOOSE i \in offending : \A j \in offending : i <= j
        dim == CHOOSE d \in 2..Len(first_shape) :
                  differs(n, d) /\ \A e \in 2..(d - 1) : ~differs(n, e)
    IN  [dim |-> dim - 1, first_shape |-> first_shape, n |-> n,
         nth_shape |-> w.tensors[args[n]].layout.shape]

\* the error cat0 returns for a violation found by its checking loop
Cat0Error(w, args, e) ==
    IF e = "ShapeMismatchCat" THEN ErrInfo(w, e, Cat0Mismatch(w, args)) ELSE Err(w, e)

\* the copying loop of cat0 writing every operand at the start of the destination
RECURSIVE Cat0CopyNoOffset(_, _, _, _, _, _)
Cat0CopyNoOffset(w0, w, st, args, i, offset) ==
    IF i > Len(args) THEN [w |-> w, ok |-> TRUE, err |-> "none", st |-> st]
    ELSE LET arg == w0.tensors[args[i]]
             c == CopyStridedSrc(w, w0.storages[arg.storage], st, 0, arg.layout)
         IN  IF ~c.ok THEN c
             ELSE Cat0CopyNoOffset(w0, c.w, c.st, args, i + 1, 0)

\* the copying loop of cat0: operand i goes to the offset of the operands before it
RECURSIVE Cat0Copy(_, _, _, _, _, _)
Cat0Copy(w0, w, st, args, i, offset) ==
    IF i > Len(args) THEN [w |-> w, ok |-> TRUE, err |-> "none", st |-> st]
    ELSE LET arg == w0.tensors[args[i]]
             c == CopyStridedSrc(w, w0.storages[arg.storage], st, offset, arg.layout)
         IN  IF ~c.ok THEN c
             ELSE Cat0Copy(w0, c.w, c.st, args, i + 1,
                           offset + ElemCount(arg.layout.shape))

\* cat0 allocating the destination before its checking loop
cat0AllocatesFirst(w, args) ==
    IF Len(args) = 0 THEN Err(w, "OpRequiresAtLeastOneTensor")
    ELSE IF Len(args) = 1 THEN Ok(w, args[1])
    ELSE LET arg0 == w.tensors[args[1]]
             shape == [arg0.layout.shape EXCEPT ![1] =
                          SumSeq([i \in 1..Len(args) |->
                                     w.tensors[args[i]].layout.shape[1]])]
             z == DeviceZeros(w, shape, arg0.dtype, arg0.device)
             e == Cat0Check(w, args, 1)
         IN  IF ~z.ok THEN Err(z.w, z.err)
             ELSE IF e # "none" THEN Cat0Error(z.w, args, e)
             ELSE LET c == Cat0Copy(w, z.w, z.st, args, 1, 0) IN
                  IF ~c.ok THEN Err(c.w, c.err)
                  ELSE from_storage(c.w, c.st, shape, BackpropOpNew(w, args, "Cat"), FALSE)

cat0(w, args) ==
    IF Len(args) = 0 THEN Err(w, "OpRequiresAtLeastOneTensor")
    ELSE IF Len(args) = 1 THEN Ok(w, args[1])
    ELSE LET arg0 == w.tensors[args[1]]
             e == Cat0Check(w, args, 1)
         IN  IF e # "none" THEN Cat0Error(w, args, e)
             ELSE LET shape == [arg0.layout.shape EXCEPT ![1] =
                                   SumSeq([i \in 1..Len(args) |->
                                              w.tensors[args[i]].layout.shape[1]])]
                      op == BackpropOpNew(w, args, "Cat")
                      z == DeviceZeros(w, shape, arg0.dtype, arg0.device)
                  IN  IF ~z.ok THEN Err(z.w, z.err)
                      ELSE LET c == Cat0Copy(w, z.w, z.st, args, 1, 0) IN
                           IF ~c.ok THEN Err(c.w, c.err)
                           ELSE from_storage(c.w, c.st, shape, op, FALSE)

\* args.iter().map(|a| a.transpose(0, dim)).collect::<Result<Vec<_>>>()
RECURSIVE TransposeAll(_, _, _, _, _)
TransposeAll(w, args, i, dim, acc) ==
    IF i > Len(args) THEN [w |-> w, ok |-> TRUE, err |-> "none", ts |-> acc]
    ELSE LET r == transpose(w, args[i], 0, dim) IN
         IF ~r.ok THEN [w |-> r.w, ok |-> FALSE, err |-> r.err, ts |-> acc]
         ELSE TransposeAll(r.w, args, i + 1, dim, Append(acc, r.t))

\* cat validating dim before it looks at the number of operands
catChecksDimFirst(w, args, dim) ==
    IF Len(args) = 0 THEN Err(w, "OpRequiresAtLeastOneTensor")
    ELSE IF \E i \in DOMAIN args : ~DimToIndex(w.tensors[args[i]].layout.shape, dim)
    THEN Err(w, "DimOutOfRange")
    ELSE IF Len(args) = 1 THEN Ok(w, args[1])
    ELSE IF dim = 0 THEN cat0(w, args)
    ELSE LET ts == TransposeAll(w, args, 1, dim, <<>>) IN
         IF ~ts.ok THEN Err(ts.w, ts.err)
         ELSE LET c == cat0(ts.w, ts.ts) IN
              IF ~c.ok THEN c ELSE transpose(c.w, c.t, 0, dim)

cat(w, args, dim) ==
    IF Len(args) = 0 THEN Err(w, "OpRequiresAtLeastOneTensor")
    ELSE IF Len(args) = 1 THEN Ok(w, args[1])
    ELSE IF \E i \in DOMAIN args : ~DimToIndex(w.tensors[args[i]].layout.shape, dim)
    THEN Err(w, "DimOutOfRange")
    ELSE IF dim = 0 THEN cat0(w, args)
    ELSE LET ts == TransposeAll(w, args, 1, dim, <<>>) IN
         IF ~ts.ok THEN Err(ts.w, ts.err)
         ELSE LET c == cat0(ts.w, ts.ts) IN
              IF ~c.ok THEN c ELSE transpose(c.w, c.t, 0, dim)

\* args.iter().map(|t| t.unsqueeze(dim)).collect::<Result<Vec<_>>>()
RECURSIVE UnsqueezeAll(_, _, _, _, _)
UnsqueezeAll(w, args, i, dim, acc) ==
    IF i > Len(args) THEN [w |-> w, ok |-> TRUE, err |-> "none", ts |-> acc]
    ELSE LET r == unsqueeze(w, args[i], dim) IN
         IF ~r.ok THEN [w |-> r.w, ok |-> FALSE, err |-> r.err, ts |-> acc]
         ELSE UnsqueezeAll(r.w, args, i + 1, dim, Append(acc, r.t))

stack(w, args, dim) ==
    IF Len(args) = 0 THEN ErrInfo(w, "OpRequiresAtLeastOneTensor", [op |-> "stack"])
    ELSE IF ~DimToIndexPlusOne(w.tensors[args[1]].layout.shape, dim)
    THEN Err(w, "DimOutOfRange")
    ELSE LET us == UnsqueezeAll(w, args, 1, dim, <<>>) IN
         IF ~us.ok THEN Err(us.w, us.err) ELSE cat(us.w, us.ts, dim)

(***************************************************************************)
(* Indexing along a dimension.                                             *)
(***************************************************************************)
\* the multi-index (0-based) of the k-th logical element (k from 0) of a shape
Unravel(k, shape) ==
    LET cs == StrideContiguous(shape) IN
    [i \in 1..Len(shape) |-> (k \div cs[i]) % shape[i]]

\* the logical element of a storage read at a multi-index through a layout
At(st, l, mi) ==
    st.data[l.start_offset + SumSeq([i \in 1..Len(mi) |-> mi[i] * l.stride[i]]) + 1]

\* Shape::dims1: the length of a rank-1 shape
Dims1(shape) == Len(shape) = 1

\* the values of a rank-1 index tensor, in order
IndexValues(ids, ids_l) ==
    [i \in 1..ids_l.shape[1] |-> At(ids, ids_l, <<i - 1>>)]

\* Storage::index_select: an integer index on the source's device, every index below
\* the size of the selected dimension
StorageIndexSelect(w, src, ids, src_l, ids_l, dim) ==
    IF src.device # ids.device
    THEN [w |-> w, ok |-> FALSE, err |-> "DeviceMismatchBinaryOp", st |-> NoStorage]
    ELSE IF ids.dtype # "U8"
    THEN [w |-> w, ok |-> FALSE, err |-> "UnsupportedDTypeForOp", st |-> NoStorage]
    ELSE LET iv == IndexValues(ids, ids_l)
             out == [src_l.shape EXCEPT ![dim + 1] = Len(iv)]
         IN  IF \E i \in DOMAIN iv : iv[i] >= src_l.shape[dim + 1]
             THEN [w |-> [w EXCEPT !.backend = @ + 1], ok |-> FALSE,
                   err |-> "InvalidIndex", st |-> NoStorage]
             ELSE BackendCall(w, [dtype |-> src.dtype, device |-> src.device,
                     data |-> [k \in 1..ElemCount(out) |->
                                  LET mi == Unravel(k - 1, out) IN
                                  At(src, src_l, [mi EXCEPT ![dim + 1] = iv[mi[dim + 1] + 1]])]])

\* Storage::index_add: a copy of self to which slice i of the source along dim is
\* added at position indexes[i]
StorageIndexAdd(w, dst, dst_l, ids, ids_l, src, src_l, dim) ==
    IF dst.device # ids.device \/ dst.device # src.device
    THEN [w |-> w, ok |-> FALSE, err |-> "DeviceMismatchBinaryOp", st |-> NoStorage]
    ELSE IF dst.dtype # src.dtype
    THEN [w |-> w, ok |-> FALSE, err |-> "DTypeMismatchBinaryOp", st |-> NoStorage]
    ELSE IF ids.dtype # "U8"
    THEN [w |-> w, ok |-> FALSE, err |-> "UnsupportedDTypeForOp", st |-> NoStorage]
    ELSE LET iv == IndexValues(ids, ids_l) IN
         IF \E i \in DOMAIN iv : iv[i] >= dst_l.shape[dim + 1]
         THEN [w |-> [w EXCEPT !.backend = @ + 1], ok |-> FALSE,
               err |-> "InvalidIndex", st |-> NoStorage]
         ELSE BackendCall(w, [dtype |-> dst.dtype, device |-> dst.device,
                 data |-> [k \in 1..ElemCount(dst_l.shape) |->
                              LET mi == Unravel(k - 1, dst_l.shape) IN
                              At(dst, dst_l, mi)
                                + SumSeq([i \in 1..Len(iv) |->
                                            IF iv[i] = mi[dim + 1]
                                            THEN At(src, src_l, [mi EXCEPT ![dim + 1] = i - 1])
                                            ELSE 0])]])

\* index_select accepting an index tensor of any rank
index_selectAnyRank(w, self, indexes, dim) ==
    LET t == w.tensors[self]
        ix == w.tensors[indexes]
    IN  IF ~DimToIndex(t.layout.shape, dim) THEN Err(w, "DimOutOfRange")
        ELSE LET flat == [ix.layout EXCEPT !.shape = <<ElemCount(ix.layout.shape)>>,
                                           !.stride = <<1>>]
                 s == StorageIndexSelect(w, w.storages[t.storage], w.storages[ix.storage],
                                         t.layout, flat, dim)
             IN  IF ~s.ok THEN Err(s.w, s.err)
                 ELSE from_storage(s.w, s.st,
                                   [t.layout.shape EXCEPT ![dim + 1] = flat.shape[1]],
                                   BackpropOpNew(w, <<self, indexes>>, "IndexSelect"), FALSE)

index_select(w, self, indexes, dim) ==
    LET t == w.tensors[self]
        ix == w.tensors[indexes]
    IN  IF ~DimToIndex(t.layout.shape, dim) THEN Err(w, "DimOutOfRange")
        ELSE IF Len(ix.layout.shape) # 1
        THEN ShapeMismatchBinaryOp(w, self, indexes, "index-select")
        ELSE LET s == StorageIndexSelect(w, w.storages[t.storage], w.storages[ix.storage],
                                         t.layout, ix.layout, dim)
             IN  IF ~s.ok THEN Err(s.w, s.err)
                 ELSE from_storage(s.w, s.st,
                                   [t.layout.shape EXCEPT ![dim + 1] = ix.layout.shape[1]],
                                   BackpropOpNew(w, <<self, indexes>>, "IndexSelect"), FALSE)

embedding(w, self, ids) ==
    IF Len(w.tensors[self].layout.shape) # 2 \/ Len(w.tensors[ids].layout.shape) # 1
    THEN ShapeMismatchBinaryOp(w, self, ids, "embedding")
    ELSE index_select(w, self, ids, 0)

index_add(w, self, indexes, source, dim) ==
    LET t == w.tensors[self]
        ix == w.tensors[indexes]
        src == w.tensors[source]
        self_dims == t.layout.shape
        source_dims == src.layout.shape
    IN  IF ~DimToIndex(self_dims, dim) THEN Err(w, "DimOutOfRange")
        ELSE IF \/ Len(source_dims) # Len(self_dims)
                \/ \E i \in 1..Len(self_dims) : i # dim + 1 /\ self_dims[i] # source_dims[i]
        THEN ShapeMismatchBinaryOp(w, self, source, "index-add (self, source)")
        ELSE IF ~Dims1(ix.layout.shape)
        THEN ErrInfo(w, "UnexpectedNumberOfDims",
                     [expected |-> 1, got |-> Len(ix.layout.shape),
                      shape |-> ix.layout.shape])
        ELSE IF source_dims[dim + 1] # ix.layout.shape[1]
        THEN ShapeMismatchBinaryOp(w, indexes, source, "index-add (ids, source))")
        ELSE LET s == StorageIndexAdd(w, w.storages[t.storage], t.layout,
                                      w.storages[ix.storage], ix.layout,
                                      w.storages[src.storage], src.layout, dim)
             IN  IF ~s.ok THEN Err(s.w, s.err)
                 ELSE from_storage(s.w, s.st, self_dims,
                                   BackpropOpNew(w, <<self, indexes, source>>, "IndexAdd"),
                                   FALSE)

(***************************************************************************)
(* Reductions.                                                             *)
(***************************************************************************)
\* the shape after a reduction that keeps the reduced dimensions with size 1
ReducedDims(shape, sum_dims) ==
    [i \in 1..Len(shape) |-> IF (i - 1) \in Range(sum_dims) THEN 1 ELSE shape[i]]

\* Storage::reduce_op(ReduceOp::Sum, layout, sum_dims): a contiguous storage whose
\* element at a multi-index is the sum of the source over the reduced dimensions
StorageReduceSum(w, src, l, sum_dims) ==
    LET out == ReducedDims(l.shape, sum_dims)
        agrees(mi, mo) ==
            \A i \in 1..Len(mi) : (i - 1) \in Range(sum_dims) \/ mi[i] = mo[i]
    IN  BackendCall(w, [dtype |-> src.dtype, device |-> src.device,
            data |-> [k \in 1..ElemCount(out) |->
                         SumSeq([j \in 1..ElemCount(l.shape) |->
                                    LET mi == Unravel(j - 1, l.shape) IN
                                    IF agrees(mi, Unravel(k - 1, out))
                                    THEN At(src, l, mi) ELSE 0])]])

\* the dimensions of a shape whose index is not in dims, in order
RECURSIVE FilterDims(_, _, _)
FilterDims(shape, dims, i) ==
    IF i > Len(shape) THEN <<>>
    ELSE (IF (i - 1) \in Range(dims) THEN <<>> ELSE <<shape[i]>>)
            \o FilterDims(shape, dims, i + 1)

\* squeeze_dims squeezing the first listed dimension only
squeeze_dimsFirstOnly(w, self, dims) ==
    IF Len(dims) = 0 THEN Ok(w, self) ELSE squeeze(w, self, dims[1])

squeeze_dims(w, self, dims) ==
    IF Len(dims) = 0 THEN Ok(w, self)
    ELSE IF Len(dims) = 1 THEN squeeze(w, self, dims[1])
    ELSE reshape(w, self, FilterDims(w.tensors[self].layout.shape, dims, 1))

sum_impl(w, self, sum_dims, keepdim) ==
    LET t == w.tensors[self] IN
    IF \E i \in DOMAIN sum_dims : ~DimToIndex(t.layout.shape, sum_dims[i])
    THEN Err(w, "DimOutOfRange")
    ELSE LET s == StorageReduceSum(w, w.storages[t.storage], t.layout, sum_dims) IN
         IF ~s.ok THEN Err(s.w, s.err)
         ELSE LET sum == from_storage(s.w, s.st, ReducedDims(t.layout.shape, sum_dims),
                                      BackpropOpNew(w, <<self>>, "Reduce"), FALSE)
              IN  IF keepdim THEN sum ELSE squeeze_dims(sum.w, sum.t, sum_dims)

sum_keepdim(w, self, sum_dims) == sum_impl(w, self, sum_dims, TRUE)

sum(w, self, sum_dims) == sum_impl(w, self, sum_dims, FALSE)

(***************************************************************************)
(* Custom operations.                                                      *)
(***************************************************************************)
\* Storage::apply_op2 for a custom op whose forward pass adds the number of
\* elements of the second operand to every element of the first
StorageApplyOp2(w, s1, l1, s2, l2) ==
    LET li == StridedIndex(l1)
        ri == StridedIndex(l2)
    IN  BackendCall(w, [dtype |-> s1.dtype, device |-> s1.device,
                        data |-> [k \in 1..Len(li) |-> s1.data[li[k] + 1] + Len(ri)]])

apply_op2_no_bwd(w, self, rhs) ==
    LET a == w.tensors[self]
        b == w.tensors[rhs]
        s == StorageApplyOp2(w, w.storages[a.storage], a.layout,
                             w.storages[b.storage], b.layout)
    IN  IF ~s.ok THEN Err(s.w, s.err)
        ELSE from_storage(s.w, s.st, a.layout.shape, NoneOp, FALSE)

apply_op2_arc(w, self, rhs) ==
    LET a == w.tensors[self]
        b == w.tensors[rhs]
        s == StorageApplyOp2(w, w.storages[a.storage], a.layout,
                             w.storages[b.storage], b.layout)
    IN  IF ~s.ok THEN Err(s.w, s.err)
        ELSE from_storage(s.w, s.st, a.layout.shape,
                          BackpropOpNew(w, <<self, rhs>>, "CustomOp2"), FALSE)

apply_op2(w, self, rhs) == apply_op2_arc(w, self, rhs)

(***************************************************************************)
(* Pooling and chunking.  Subtractions and additions on usize panic in a   *)
(* build with overflow checks and wrap in a build without them; a division *)
(* by zero and an index outside a buffer panic in every build.             *)
(***************************************************************************)
\* (x - k) / s + 1 on usize
PoolOut(x, k, s, build) ==
    IF k > x /\ build = "debug" THEN [ok |-> FALSE, v |-> 0]
    ELSE IF s = 0 THEN [ok |-> FALSE, v |-> 0]
    ELSE LET q == ((x - k) % UsizeMod) \div s IN
         IF q + 1 >= UsizeMod /\ build = "debug" THEN [ok |-> FALSE, v |-> 0]
         ELSE [ok |-> TRUE, v |-> (q + 1) % UsizeMod]

PoolKernel(kind, window) ==
    IF kind = "avg" THEN SumSeq(window) \div Len(window)
    ELSE CHOOSE m \in Range(window) : \A x \in Range(window) : x <= m

\* Storage::avg_pool2d / Storage::max_pool2d: the output has one element per window
\* position; a window reaching outside the input indexes outside the buffer
StoragePool2d(w, kind, src, l, kernel_size, stride, build) ==
    LET h_out == PoolOut(l.shape[3], kernel_size[1], stride[1], build)
        w_out == PoolOut(l.shape[4], kernel_size[2], stride[2], build)
        out == <<l.shape[1], l.shape[2], h_out.v, w_out.v>>
        window(mo) ==
            [j \in 1..(kernel_size[1] * kernel_size[2]) |->
                <<mo[1], mo[2],
                  mo[3] * stride[1] + ((j - 1) \div kernel_size[2]),
                  mo[4] * stride[2] + ((j - 1) % kernel_size[2])>>]
        inside(mi) == mi[3] < l.shape[3] /\ mi[4] < l.shape[4]
    IN  IF ~h_out.ok \/ ~w_out.ok
        THEN [w |-> w, ok |-> FALSE, err |-> "Panic", st |-> NoStorage]
        ELSE IF \E k \in 1..ElemCount(out) :
                    \E j \in DOMAIN window(Unravel(k - 1, out)) :
                        ~inside(window(Unravel(k - 1, out))[j])
        THEN [w |-> w, ok |-> FALSE, err |-> "Panic", st |-> NoStorage]
        ELSE BackendCall(w, [dtype |-> src.dtype, device |-> src.device,
                data |-> [k \in 1..ElemCount(out) |->
                             LET win == window(Unravel(k - 1, out)) IN
                             PoolKernel(kind, [j \in DOMAIN win |-> At(src, l, win[j])])]])

\* avg_pool2d_with_stride and max_pool2d_with_stride, which differ in the kernel only
pool2d_with_stride(w, self, kind, kernel_size, stride, build) ==
    LET t == w.tensors[self]
        dims == t.layout.shape
    IN  IF Len(dims) # 4
        THEN ErrInfo(w, "UnexpectedNumberOfDims",
                     [expected |-> 4, got |-> Len(dims), shape |-> dims])
        ELSE LET h_out == PoolOut(dims[3], kernel_size[1], stride[1], build)
                 w_out == PoolOut(dims[4], kernel_size[2], stride[2], build)
             IN  IF ~h_out.ok \/ ~w_out.ok THEN Err(w, "Panic")
                 ELSE LET s == StoragePool2d(w, kind, w.storages[t.storage], t.layout,
                                             kernel_size, stride, build)
                      IN  IF ~s.ok THEN Err(s.w, s.err)
                          ELSE from_storage(s.w, s.st,
                                            <<dims[1], dims[2], h_out.v, w_out.v>>,
                                            BackpropOpNew(w, <<self>>, "Pool2D"), FALSE)

avg_pool2d_with_stride(w, self, kernel_size, stride, build) ==
    pool2d_with_stride(w, self, "avg", kernel_size, stride, build)

max_pool2d_with_stride(w, self, kernel_size, stride, build) ==
    pool2d_with_stride(w, self, "max", kernel_size, stride, build)

\* the narrows of chunk, one per <<start, len>>; the outcome carries the handles
RECURSIVE ChunkNarrows(_, _, _, _, _)
ChunkNarrows(w, self, dim, pieces, acc) ==
    IF pieces = <<>>
    THEN [w |-> w, ok |-> TRUE, t |-> IF acc = <<>> THEN 0 ELSE acc[Len(acc)],
          err |-> "none", info |-> acc]
    ELSE LET r == narrow(w, self, dim, pieces[1][1], pieces[1][2], "release") IN
         IF ~r.ok THEN r
         ELSE ChunkNarrows(r.w, self, dim, Tail(pieces), Append(acc, r.t))

chunk(w, self, chunks, dim) ==
    LET dims == w.tensors[self].layout.shape IN
    IF ~DimToIndex(dims, dim) THEN Err(w, "DimOutOfRange")
    ELSE LET size == dims[dim + 1] IN
         IF size < chunks
         THEN ChunkNarrows(w, self, dim, [i \in 1..size |-> <<i - 1, 1>>], <<>>)
         ELSE IF chunks = 0 THEN Err(w, "Panic")
         ELSE LET chunk_size == size \div chunks
                  cnt_additional == size % chunks
                  start(i) == i * chunk_size
                                + (IF i < cnt_additional THEN i ELSE cnt_additional)
              IN  ChunkNarrows(w, self, dim,
                      [n \in 1..chunks |->
                          <<start(n - 1),
                            IF n - 1 < cnt_additional THEN chunk_size + 1
                            ELSE chunk_size>>],
                      <<>>)

(***************************************************************************)
(* Layer builders of candle-nn: the tensors they request from the variable *)
(* store.                                                                  *)
(***************************************************************************)
\* VarBuilder::get_with_hints(shape, name, init): a fresh variable of the shape
GetWithHints(w, shape, name) ==
    LET s == DeviceFill(w, shape, "F32", "Cpu", 0) IN
    IF ~s.ok THEN Err(s.w, s.err)
    ELSE from_storage(s.w, s.st, shape, NoneOp, TRUE)

\* ConvTranspose2d::new(weight, bias, config); bias 0 stands for None
ConvTranspose2dNew(w, weight, bias) ==
    [Ok(w, weight) EXCEPT !.info = [weight |-> weight, bias |-> bias]]

conv_transpose2d(w, in_channels, out_channels, kernel_size) ==
    LET ws == GetWithHints(w, <<in_channels, out_channels, kernel_size, kernel_size>>,
                           "weight")
    IN  IF ~ws.ok THEN ws
        ELSE LET bs == GetWithHints(ws.w, <<out_channels>>, "bias") IN
             IF ~bs.ok THEN bs ELSE ConvTranspose2dNew(bs.w, ws.t, bs.t)

conv_transpose2d_no_bias(w, in_channels, out_channels, kernel_size) ==
    LET ws == GetWithHints(w, <<out_channels, in_channels, kernel_size, kernel_size>>,
                           "weight")
    IN  IF ~ws.ok THEN ws ELSE ConvTranspose2dNew(ws.w, ws.t, 0)

(***************************************************************************)
(* Inputs of the operations.                                               *)
(***************************************************************************)
\* the element stored through the write guard: a value no constructor puts in a buffer
WriteVal == UsizeMax
MaxWrites == 1           \* storage cells overwritten through the write guard

NewArgs ==
    { [n |-> 4, shape |-> <<2, 2>>, dtype |-> "F32", device |-> "Cpu"],
      [n |-> 4, shape |-> <<1, 2, 2>>, dtype |-> "U8", device |-> "Cpu"],
      [n |-> 2, shape |-> <<2>>, dtype |-> "F32", device |-> "Cuda"],
      [n |-> 3, shape |-> <<2, 2>>, dtype |-> "F32", device |-> "Cpu"] }

\* ordinal of the backend call that fails in a call (0: none)
FailAts == {0, 1, 2}
FillArgs ==
    { [shape |-> <<2, 2>>, v |-> 0, is_variable |-> FALSE],
      [shape |-> <<2>>, v |-> 1, is_variable |-> TRUE] }
\* <<dim, start, len, build>>
NarrowArgs ==
    { <<0, 0, 1, "release">>, <<0, 1, 1, "release">>, <<1, 1, 1, "release">>,
      <<1, 0, 2, "release">>, <<0, 1, 2, "release">>, <<2, 0, 1, "release">>,
      <<1, 1, 0, "release">>, <<0, 2, 0, "release">>,
      <<0, UsizeMax, 1, "release">>, <<0, UsizeMax, 1, "debug">> }
TransposeArgs == {<<0, 1>>, <<0, 2>>, <<1, 3>>}
PermuteArgs == {<<1, 0>>, <<0, 0>>, <<2, 0, 1>>, <<0, 3>>}
BroadcastShapes == {<<2, 2>>, <<2, 2, 2>>, <<1, 2>>, <<3>>}
ReshapeShapes == {<<4>>, <<2, 2>>, <<2, 1>>, <<1>>, <<8>>}

(***************************************************************************)
(* State machine of the operation surface.                                 *)
(***************************************************************************)
NoResult ==
    [op |-> "none", args |-> <<>>, p |-> <<>>, ok |-> TRUE, t |-> 0,
     err |-> "none", info |-> <<>>, backend |-> 0]

\* no arange_step call is running
NoFrame ==
    [pc |-> "idle", start |-> 0, end |-> 0, step |-> 0, current |-> 0, data |-> <<>>,
     build |-> "release"]

\* no thread is blocked in a lock request
NoRequest == [t |-> 0, method |-> "none", mode |-> "none"]

\* the state after start-up, apart from the platform's lock policy
InitHeap ==
    /\ tensors = <<>>
    /\ storages = <<>>
    /\ COUNTER = 1
    /\ handles = {}
    /\ lineage = <<>>
    /\ result = NoResult
    /\ nonew = 0
    /\ guards = {}
    /\ pending = [th \in Threads |-> 0]
    /\ issued = <<>>
    /\ frame = NoFrame
    /\ waiting = [th \in Threads |-> NoRequest]

Init == InitHeap /\ policy = "readers"

CanCall == COUNTER <= MaxTensors /\ Len(tensors) < MaxTensors

\* the call returns: the heaps and the counter are those of the outcome's world,
\* the caller keeps the returned handle
Returned(o, op, args, p, src) ==
    /\ tensors' = o.w.tensors
    /\ storages' = o.w.storages
    /\ COUNTER' = o.w.counter
    /\ handles' = IF o.ok THEN handles \cup {o.t} ELSE handles
    /\ IF o.ok /\ o.t \notin handles
       THEN nonew' = nonew
       ELSE nonew < MaxNoNew /\ nonew' = nonew + 1
    /\ lineage' = [i \in 1..Len(o.w.tensors) |->
                     IF i <= Len(lineage) THEN lineage[i]
                     ELSE IF o.ok /\ i = o.t /\ src # 0
                          THEN [from |-> src, op |-> op, copied |-> o.w.backend > 0,
                                alloc |-> Len(o.w.storages) - Len(storages)]
                          ELSE [from |-> 0, op |-> op, copied |-> FALSE, alloc |-> 0]]
    /\ result' = [op |-> op, args |-> args, p |-> p, ok |-> o.ok, t |-> o.t,
                  err |-> o.err, info |-> o.info, backend |-> o.w.backend]
    /\ UNCHANGED <<guards, pending, issued, waiting, policy>>

\* a call that runs in one step returns
Return(o, op, args, p, src) == Returned(o, op, args, p, src) /\ UNCHANGED frame

New ==
    /\ CanCall
    /\ \E a \in NewArgs, failAt \in FailAts :
          Return(new_impl(World(failAt), [k \in 1..a.n |-> k], a.shape, a.dtype,
                          a.device, FALSE),
                 "new", <<>>, a.shape, 0)

Fill ==
    /\ CanCall
    /\ \E a \in FillArgs, failAt \in FailAts :
          Return(fill_impl(World(failAt), a.shape, "F32", "Cpu", a.is_variable, a.v),
                 "fill", <<>>, a.shape, 0)

Narrow ==
    /\ CanCall
    /\ \E self \in handles, a \in NarrowArgs :
          Return(narrow(World(0), self, a[1], a[2], a[3], a[4]),
                 "narrow", <<self>>, <<a[1], a[2], a[3]>>, self)

Transpose ==
    /\ CanCall
    /\ \E self \in handles, a \in TransposeArgs :
          Return(transpose(World(0), self, a[1], a[2]), "transpose", <<self>>, a, self)

Permute ==
    /\ CanCall
    /\ \E self \in handles, dims \in PermuteArgs :
          Return(permute(World(0), self, dims), "permute", <<self>>, dims, self)

BroadcastAs ==
    /\ CanCall
    /\ \E self \in handles, shape \in BroadcastShapes :
          Return(broadcast_as(World(0), self, shape), "broadcast_as", <<self>>,
                 shape, self)

Detach ==
    /\ CanCall
    /\ \E self \in handles :
          Return(detach(World(0), self), "detach", <<self>>, <<>>, self)

Reshape ==
    /\ CanCall
    /\ \E self \in handles, shape \in ReshapeShapes, failAt \in FailAts :
          Return(reshape(World(failAt), self, shape), "reshape", <<self>>, shape, self)

Squeeze ==
    /\ CanCall
    /\ \E self \in handles, dim \in 0..2, failAt \in FailAts :
          Return(squeeze(World(failAt), self, dim), "squeeze", <<self>>, <<dim>>, self)

Unsqueeze ==
    /\ CanCall
    /\ \E self \in handles, dim \in {0, 2, 4}, failAt \in FailAts :
          Return(unsqueeze(World(failAt), self, dim), "unsqueeze", <<self>>,
                 <<dim>>, self)

Copy ==
    /\ CanCall
    /\ \E self \in handles, failAt \in FailAts :
          Return(copy(World(failAt), self), "copy", <<self>>, <<>>, self)

Contiguous ==
    /\ CanCall
    /\ \E self \in handles, failAt \in FailAts :
          Return(contiguous(World(failAt), self), "contiguous", <<self>>, <<>>, self)

MakeVar ==
    /\ CanCall
    /\ \E self \in handles, failAt \in FailAts :
          Return(make_var(World(failAt), self), "make_var", <<self>>, <<>>, self)

ToDType ==
    /\ CanCall
    /\ \E self \in handles, dtype \in DTypes, failAt \in FailAts :
          Return(to_dtype(World(failAt), self, dtype), "to_dtype", <<self>>,
                 <<dtype>>, self)

ToDevice ==
    /\ CanCall
    /\ \E self \in handles, device \in Devices, failAt \in FailAts :
          Return(to_device(World(failAt), self, device), "to_device", <<self>>,
                 <<device>>, self)

ToVec2 ==
    /\ CanCall
    /\ \E self \in handles, failAt \in FailAts :
          Return(to_vec2(World(failAt), self), "to_vec2", <<self>>, <<>>, 0)

Add ==
    /\ CanCall
    /\ \E self \in handles, rhs \in handles, failAt \in FailAts :
          Return(add(World(failAt), self, rhs), "add", <<self, rhs>>, <<>>, 0)

BroadcastAdd ==
    /\ CanCall
    /\ \E self \in handles, rhs \in handles, failAt \in FailAts :
          Return(broadcast_add(World(failAt), self, rhs), "broadcast_add",
                 <<self, rhs>>, <<>>, 0)

Matmul ==
    /\ CanCall
    /\ \E self \in handles, rhs \in handles, failAt \in FailAts :
          Return(matmul(World(failAt), self, rhs), "matmul", <<self, rhs>>, <<>>, 0)

BroadcastMatmul ==
    /\ CanCall
    /\ \E self \in handles, rhs \in handles, failAt \in FailAts :
          Return(broadcast_matmul(World(failAt), self, rhs), "broadcast_matmul",
                 <<self, rhs>>, <<>>, 0)

\* the argument lists of cat: none, one or two of the caller's tensors
CatArgs == {<<>>} \cup {<<a>> : a \in handles} \cup (handles \X handles)

Cat ==
    /\ CanCall
    /\ \E args \in CatArgs, dim \in {0, 1}, failAt \in FailAts :
          Return(cat(World(failAt), args, dim), "cat", args, <<dim>>, 0)

\* cells of all storages that hold the value written through a write guard
Written ==
    SumSeq([s \in 1..Len(storages) |->
              Cardinality({i \in DOMAIN storages[s].data :
                              storages[s].data[i] = WriteVal})])

\* storage_mut_and_layout: take the write guard, store one element of the
\* tensor's layout, drop the guard
StorageMutWrite(w, self, addr) ==
    [w EXCEPT !.storages[w.tensors[self].storage].data[addr + 1] = WriteVal]

Write ==
    /\ Written < MaxWrites
    /\ guards = {}
    /\ \E self \in handles :
          \E addr \in Range(StridedIndex(tensors[self].layout)) :
             /\ storages[tensors[self].storage].data[addr + 1] # WriteVal
             /\ storages' = StorageMutWrite(World(0), self, addr).storages
             /\ result' = [op |-> "write", args |-> <<self>>, p |-> <<addr>>,
                           ok |-> TRUE, t |-> self, err |-> "none", info |-> <<>>,
                           backend |-> 0]
             /\ UNCHANGED <<tensors, COUNTER, handles, lineage, nonew, guards, pending,
                            issued, frame, waiting, policy>>

Next ==
    \/ New \/ Fill
    \/ Narrow \/ Transpose \/ Permute \/ BroadcastAs \/ Detach
    \/ Reshape \/ Squeeze \/ Unsqueeze
    \/ Copy \/ Contiguous \/ MakeVar \/ ToDType \/ ToDevice \/ ToVec2
    \/ Add \/ BroadcastAdd \/ Matmul \/ BroadcastMatmul \/ Cat

Spec == Init /\ [][Next]_vars

(***************************************************************************)
(* Writers: the copying and viewing operations together with writes made   *)
(* through storage_mut_and_layout.                                         *)
(***************************************************************************)
NextWrite ==
    \/ New \/ Narrow \/ Transpose \/ Detach \/ Reshape
    \/ Copy \/ Contiguous \/ MakeVar
    \/ Write

SpecWrite == Init /\ [][NextWrite]_vars

(***************************************************************************)
(* Identifier allocation under interleaving: a thread building a Tensor_   *)
(* literal first evaluates TensorId::new(), later wraps the finished       *)
(* literal in an Arc; other threads run in between.                        *)
(***************************************************************************)
\* `id: TensorId::new()` of the literal under construction
IdFetch(th) ==
    /\ pending[th] = 0
    /\ Len(issued) < MaxIds
    /\ LET n == TensorIdNew(COUNTER) IN
         /\ COUNTER' = n.next
         /\ pending' = [pending EXCEPT ![th] = n.id]
         /\ issued' = Append(issued, n.id)
    /\ UNCHANGED <<tensors, storages, handles, lineage, result, nonew, guards, frame,
                   waiting, policy>>

\* Tensor(Arc::new(tensor_)) of from_storage, on a scalar storage
IdPublish(th) ==
    /\ pending[th] # 0
    /\ LET st == [dtype |-> "F32", device |-> "Cpu", data |-> <<th>>]
           w == [World(0) EXCEPT !.storages = Append(@, st)]
           o == NewTensor(w, pending[th], Len(w.storages), LayoutContiguous(<<>>),
                          NoneOp, FALSE, st.dtype, st.device)
       IN  /\ tensors' = o.w.tensors
           /\ storages' = o.w.storages
           /\ handles' = handles \cup {o.t}
    /\ pending' = [pending EXCEPT ![th] = 0]
    /\ lineage' = Append(lineage, [from |-> 0, op |-> "new", copied |-> FALSE,
                                   alloc |-> 1])
    /\ UNCHANGED <<COUNTER, issued, result, nonew, guards, frame, waiting, policy>>

NextId == \E th \in Threads : IdFetch(th) \/ IdPublish(th)

SpecId == Init /\ [][NextId]_vars

(***************************************************************************)
(* Lock guards: storage, storage_and_layout and storage_mut_and_layout     *)
(* lock the RwLock inside the Arc the handle points to and hand the guard  *)
(* to the caller, who drops it later.                                      *)
(***************************************************************************)
LockOfHandle(t) == t

\* self.storage: the Arc<RwLock<Storage>> field of Tensor_, cloned by views
LockOf(t) == tensors[t].storage

GuardsOn(lock, mode) == {g \in guards : LockOf(g.t) = lock /\ g.mode = mode}

\* RwLock::read: granted while no writer holds the lock
RwLockRead(th, self, method) ==
    /\ Cardinality(guards) < MaxGuards
    /\ GuardsOn(LockOf(self), "write") = {}
    /\ guards' = guards \cup {[th |-> th, t |-> self, method |-> method, mode |-> "read"]}
    /\ UNCHANGED <<tensors, storages, COUNTER, handles, lineage, result, nonew,
                   pending, issued, frame, waiting, policy>>

\* RwLock::write: granted while nobody holds the lock
RwLockWrite(th, self, method) ==
    /\ Cardinality(guards) < MaxGuards
    /\ GuardsOn(LockOf(self), "write") = {}
    /\ GuardsOn(LockOf(self), "read") = {}
    /\ guards' = guards \cup {[th |-> th, t |-> self, method |-> method, mode |-> "write"]}
    /\ UNCHANGED <<tensors, storages, COUNTER, handles, lineage, result, nonew,
                   pending, issued, frame, waiting, policy>>

storage(th, self) == RwLockRead(th, self, "storage")

storage_and_layout(th, self) == RwLockRead(th, self, "storage_and_layout")

storage_mut_and_layout(th, self) == RwLockWrite(th, self, "storage_mut_and_layout")

\* the guard goes out of scope
DropGuard ==
    /\ \E g \in guards : guards' = guards \ {g}
    /\ UNCHANGED <<tensors, storages, COUNTER, handles, lineage, result, nonew,
                   pending, issued, frame, waiting, policy>>

NextLock ==
    \/ New \/ Detach \/ Narrow
    \/ \E th \in Threads, self \in handles :
          \/ storage(th, self)
          \/ storage_and_layout(th, self)
          \/ storage_mut_and_layout(th, self)
    \/ DropGuard

SpecLock == Init /\ [][NextLock]_vars

(***************************************************************************)
(* Elementwise and matrix operations on operands of several ranks, dtypes  *)
(* and devices.                                                            *)
(***************************************************************************)
BinArgs ==
    { [data |-> <<1, 2, 3, 4>>, shape |-> <<2, 2>>, dtype |-> "F32", device |-> "Cpu"],
      [data |-> <<5, 6>>, shape |-> <<1, 2>>, dtype |-> "F32", device |-> "Cpu"],
      [data |-> <<7, 8>>, shape |-> <<2, 1>>, dtype |-> "F32", device |-> "Cpu"],
      [data |-> <<9, 1>>, shape |-> <<2>>, dtype |-> "F32", device |-> "Cpu"],
      [data |-> <<1, 0, 0, 1>>, shape |-> <<2, 2>>, dtype |-> "U8", device |-> "Cpu"],
      [data |-> <<1, 2, 3>>, shape |-> <<3>>, dtype |-> "F32", device |-> "Cpu"] }

MatArgs ==
    { [data |-> <<1, 2, 3, 4>>, shape |-> <<2, 2>>, dtype |-> "F32", device |-> "Cpu"],
      [data |-> <<5, 6>>, shape |-> <<1, 2>>, dtype |-> "F32", device |-> "Cpu"],
      [data |-> <<9, 1>>, shape |-> <<2>>, dtype |-> "F32", device |-> "Cpu"],
      [data |-> <<1, 0, 0, 1>>, shape |-> <<2, 2>>, dtype |-> "U8", device |-> "Cpu"],
      [data |-> <<4, 3, 2, 1>>, shape |-> <<2, 2>>, dtype |-> "F32", device |-> "Cuda"],
      [data |-> <<2, 3>>, shape |-> <<1, 2, 1, 1>>, dtype |-> "F32", device |-> "Cpu"],
      [data |-> <<5, 7>>, shape |-> <<2, 1, 1, 1>>, dtype |-> "F32", device |-> "Cpu"],
      [data |-> <<1, 2, 3, 4>>, shape |-> <<1, 2, 2>>, dtype |-> "F32", device |-> "Cpu"],
      [data |-> <<1, 2, 3, 4>>, shape |-> <<1, 2, 1, 2>>, dtype |-> "F32",
       device |-> "Cpu"] }

\* the functions generated by binary_op! and, prefixed, by broadcast_binary_op!
BinaryOps == {"add", "sub", "mul", "div", "maximum", "minimum"}
CmpOps == {"eq", "lt"}
\* ordinal of the backend call that fails in an elementwise call (0: none)
BinFailAts == {0, 1}

NewBin ==
    /\ CanCall
    /\ \E a \in BinArgs :
          Return(new_impl(World(0), a.data, a.shape, a.dtype, a.device, FALSE),
                 "new", <<>>, a.shape, 0)

\* the kernel of div is applied to divisors other than zero
Divides(name, rhs) ==
    name = "div" => \A i \in DOMAIN storages[tensors[rhs].storage].data :
                       storages[tensors[rhs].storage].data[i] # 0

NewMat ==
    /\ CanCall
    /\ \E a \in MatArgs :
          Return(new_impl(World(0), a.data, a.shape, a.dtype, a.device, FALSE),
                 "new", <<>>, a.shape, 0)

BinaryOp ==
    /\ CanCall
    /\ \E self \in handles, rhs \in handles, name \in BinaryOps, failAt \in BinFailAts :
          /\ Divides(name, rhs)
          /\ Return(binary_op(World(failAt), self, rhs, name), name, <<self, rhs>>,
                    <<>>, 0)

BroadcastBinaryOp ==
    /\ CanCall
    /\ \E self \in handles, rhs \in handles, name \in BinaryOps :
          /\ Divides(name, rhs)
          /\ Return(broadcast_binary_op(World(0), self, rhs, "broadcast_" \o name,
                                        name),
                    "broadcast_" \o name, <<self, rhs>>, <<name>>, 0)

Cmp ==
    /\ CanCall
    /\ \E self \in handles, rhs \in handles, op \in CmpOps :
          Return(cmp(World(0), self, rhs, op), "cmp", <<self, rhs>>, <<op>>, 0)

WhereCond ==
    /\ CanCall
    /\ \E self \in handles, on_true \in handles, on_false \in handles :
          Return(where_cond(World(0), self, on_true, on_false), "where_cond",
                 <<self, on_true, on_false>>, <<>>, 0)

NextBinary ==
    \/ NewBin
    \/ BinaryOp \/ BroadcastBinaryOp \/ Cmp \/ WhereCond

SpecBinary == Init /\ [][NextBinary]_vars

NextMatmul == NewMat \/ Matmul

SpecMatmul == Init /\ [][NextMatmul]_vars

(***************************************************************************)
(* Views and their copies: narrow, transpose, permute, broadcast_as,       *)
(* contiguous, and the caller's expressions t.reshape(s)?.reshape(t.dims())*)
(* and t.transpose(d1, d2)?.transpose(d1, d2).                             *)
(***************************************************************************)
ViewArgs ==
    { [n |-> 4, shape |-> <<2, 2>>, dtype |-> "F32", device |-> "Cpu"],
      [n |-> 6, shape |-> <<2, 3>>, dtype |-> "F32", device |-> "Cpu"],
      [n |-> 6, shape |-> <<1, 2, 3>>, dtype |-> "U8", device |-> "Cpu"] }

ViewReshapeShapes == {<<2>>, <<3>>, <<4>>, <<1, 4>>, <<6>>, <<3, 2>>, <<2, 1, 3>>}
\* ordinal of the backend call that fails in a copying call (0: none)
ViewFailAts == {0, 1}

NewView ==
    /\ CanCall
    /\ \E a \in ViewArgs :
          Return(new_impl(World(0), [k \in 1..a.n |-> k], a.shape, a.dtype, a.device,
                          FALSE),
                 "new", <<>>, a.shape, 0)

\* t.reshape(shape)?.reshape(t.dims())
ReshapeBack ==
    /\ CanCall
    /\ \E self \in handles, shape \in ViewReshapeShapes, failAt \in ViewFailAts :
          LET r == reshape(World(failAt), self, shape) IN
          Return(IF ~r.ok THEN r ELSE reshape(r.w, r.t, tensors[self].layout.shape),
                 "reshape_back", <<self>>, shape, self)

\* t.transpose(dim1, dim2)?.transpose(dim1, dim2)
TransposeTwice ==
    /\ CanCall
    /\ \E self \in handles, a \in TransposeArgs :
          LET r == transpose(World(0), self, a[1], a[2]) IN
          Return(IF ~r.ok THEN r ELSE transpose(r.w, r.t, a[1], a[2]),
                 "transpose_twice", <<self>>, a, self)

NextView ==
    \/ NewView
    \/ Narrow \/ Transpose \/ Permute \/ BroadcastAs
    \/ Contiguous \/ ReshapeBack \/ TransposeTwice

SpecView == Init /\ [][NextView]_vars

(***************************************************************************)
(* Concatenation: cat, stack, and the caller's narrowing of a              *)
(* concatenation back to its operands.                                     *)
(***************************************************************************)
CatNewArgs ==
    { [data |-> <<1, 2, 3, 4>>, shape |-> <<2, 2>>, dtype |-> "F32", device |-> "Cpu"],
      [data |-> <<5, 6>>, shape |-> <<1, 2>>, dtype |-> "F32", device |-> "Cpu"],
      [data |-> <<7, 8>>, shape |-> <<2, 1>>, dtype |-> "F32", device |-> "Cpu"],
      [data |-> <<9, 10>>, shape |-> <<2>>, dtype |-> "F32", device |-> "Cpu"],
      [data |-> <<1, 0, 0, 1>>, shape |-> <<2, 2>>, dtype |-> "U8", device |-> "Cpu"],
      [data |-> <<4, 3, 2, 1>>, shape |-> <<2, 2>>, dtype |-> "F32", device |-> "Cuda"] }

\* ordinal of the backend call that fails in a concatenation (0: none)
CatFailAts == {0, 2}

NewCat ==
    /\ CanCall
    /\ \E a \in CatNewArgs :
          Return(new_impl(World(0), a.data, a.shape, a.dtype, a.device, FALSE),
                 "new", <<>>, a.shape, 0)

Stack ==
    /\ CanCall
    /\ \E args \in CatArgs, dim \in {0, 1, 2}, failAt \in CatFailAts :
          Return(stack(World(failAt), args, dim), "stack", args, <<dim>>, 0)

\* c = cat(&[a, b], dim)?; c.narrow(dim, 0, a.dim(dim))?;
\* c.narrow(dim, a.dim(dim), b.dim(dim))
CatNarrow ==
    /\ CanCall
    /\ \E a \in handles, b \in handles, dim \in {0, 1}, failAt \in CatFailAts :
          /\ DimToIndex(tensors[a].layout.shape, dim)
          /\ DimToIndex(tensors[b].layout.shape, dim)
          /\ LET la == tensors[a].layout.shape[dim + 1]
                 lb == tensors[b].layout.shape[dim + 1]
                 c == cat(World(failAt), <<a, b>>, dim)
             IN  Return(IF ~c.ok THEN c
                        ELSE LET n1 == narrow(c.w, c.t, dim, 0, la, "release") IN
                             IF ~n1.ok THEN n1
                             ELSE narrow(n1.w, c.t, dim, la, lb, "release"),
                        "cat_narrow", <<a, b>>, <<dim>>, 0)

NextCat ==
    \/ NewCat \/ Transpose
    \/ Cat \/ Stack \/ CatNarrow

SpecCat == Init /\ [][NextCat]_vars

(***************************************************************************)
(* Indexing: index_select, embedding and index_add on sources and index    *)
(* tensors of several shapes.                                              *)
(***************************************************************************)
IndexArgs ==
    { [data |-> <<1, 2, 3, 4>>, shape |-> <<2, 2>>, dtype |-> "F32", device |-> "Cpu"],
      [data |-> <<1, 2, 3, 4, 5, 6>>, shape |-> <<3, 2>>, dtype |-> "F32",
       device |-> "Cpu"],
      [data |-> <<1, 0>>, shape |-> <<2>>, dtype |-> "U8", device |-> "Cpu"],
      [data |-> <<1, 0, 1>>, shape |-> <<3>>, dtype |-> "U8", device |-> "Cpu"],
      [data |-> <<0, 1>>, shape |-> <<1, 2>>, dtype |-> "U8", device |-> "Cpu"] }

\* an indexing call may take three operands: one more tensor than CanCall admits
CanIndex == COUNTER <= MaxTensors + 1 /\ Len(tensors) <= MaxTensors

\* ordinal of the backend call that fails in an indexing call (0: none)
IndexFailAts == {0, 1}

NewIndex ==
    /\ CanCall
    /\ \E a \in IndexArgs :
          Return(new_impl(World(0), a.data, a.shape, a.dtype, a.device, FALSE),
                 "new", <<>>, a.shape, 0)

IndexSelect ==
    /\ CanIndex
    /\ \E self \in handles, indexes \in handles, dim \in {0, 1, 2},
          failAt \in IndexFailAts :
          Return(index_select(World(failAt), self, indexes, dim), "index_select",
                 <<self, indexes>>, <<dim>>, 0)

Embedding ==
    /\ CanIndex
    /\ \E self \in handles, ids \in handles :
          Return(embedding(World(0), self, ids), "embedding", <<self, ids>>, <<>>, 0)

IndexAdd ==
    /\ CanIndex
    /\ \E self \in handles, indexes \in handles, source \in handles, dim \in {0, 1} :
          Return(index_add(World(0), self, indexes, source, dim), "index_add",
                 <<self, indexes, source>>, <<dim>>, 0)

NextIndex == NewIndex \/ IndexSelect \/ Embedding \/ IndexAdd

SpecIndex == Init /\ [][NextIndex]_vars

(***************************************************************************)
(* Sums over sets of axes of contiguous and transposed tensors.            *)
(***************************************************************************)
SumArgs ==
    { [data |-> <<0, 1, 2, 3>>, shape |-> <<2, 2>>, dtype |-> "F32", device |-> "Cpu"],
      [data |-> <<1, 2, 3, 4, 5, 6>>, shape |-> <<2, 3>>, dtype |-> "F32",
       device |-> "Cpu"],
      [data |-> <<1, 2, 3, 4>>, shape |-> <<2, 1, 2>>, dtype |-> "F32",
       device |-> "Cpu"],
      [data |-> <<1, 2, 3, 4, 5, 6>>, shape |-> <<1, 2, 3>>, dtype |-> "U8",
       device |-> "Cpu"] }

\* the axes summed over: none, one, several, all, and an axis no operand has
SumDims == {<<>>, <<0>>, <<1>>, <<2>>, <<0, 1>>, <<2, 0>>, <<1, 2>>, <<0, 1, 2>>, <<3>>}

\* ordinal of the backend call that fails in a reduction (0: none)
SumFailAts == {0, 1}

NewSum ==
    /\ CanCall
    /\ \E a \in SumArgs :
          Return(new_impl(World(0), a.data, a.shape, a.dtype, a.device, FALSE),
                 "new", <<>>, a.shape, 0)

SumKeepdim ==
    /\ CanCall
    /\ \E self \in handles, sum_dims \in SumDims, failAt \in SumFailAts :
          Return(sum_keepdim(World(failAt), self, sum_dims), "sum_keepdim", <<self>>,
                 sum_dims, 0)

Sum ==
    /\ CanCall
    /\ \E self \in handles, sum_dims \in SumDims, failAt \in SumFailAts :
          Return(sum(World(failAt), self, sum_dims), "sum", <<self>>, sum_dims, 0)

NextSum == NewSum \/ Transpose \/ SumKeepdim \/ Sum

SpecSum == Init /\ [][NextSum]_vars

(***************************************************************************)
(* Gradient tracking: variables, plain tensors and what is derived from    *)
(* them.                                                                   *)
(***************************************************************************)
TrackArgs ==
    { [data |-> d, shape |-> <<1, 2>>, dtype |-> "F32", device |-> "Cpu",
       is_variable |-> v] : d \in {<<1, 2>>, <<2, 1>>}, v \in BOOLEAN }

NewTrack ==
    /\ CanCall
    /\ \E a \in TrackArgs :
          Return(new_impl(World(0), a.data, a.shape, a.dtype, a.device, a.is_variable),
                 "new", <<>>, a.shape, 0)

ApplyOp2 ==
    /\ CanCall
    /\ \E self \in handles, rhs \in handles :
          Return(apply_op2(World(0), self, rhs), "apply_op2", <<self, rhs>>, <<>>, 0)

ApplyOp2NoBwd ==
    /\ CanCall
    /\ \E self \in handles, rhs \in handles :
          Return(apply_op2_no_bwd(World(0), self, rhs), "apply_op2_no_bwd",
                 <<self, rhs>>, <<>>, 0)

NextTrack ==
    \/ NewTrack
    \/ Detach \/ Transpose \/ BinaryOp \/ Cmp \/ ApplyOp2 \/ ApplyOp2NoBwd

SpecTrack == Init /\ [][NextTrack]_vars

(***************************************************************************)
(* Pooling over (batch, channels, h, w) tensors and chunking.              *)
(***************************************************************************)
PoolArgs ==
    { [data |-> <<1, 2, 3, 5>>, shape |-> <<1, 1, 2, 2>>, dtype |-> "F32",
       device |-> "Cpu"],
      [data |-> <<6, 2, 4, 8, 1, 3>>, shape |-> <<1, 1, 3, 2>>, dtype |-> "F32",
       device |-> "Cpu"],
      [data |-> <<1, 2, 3, 4>>, shape |-> <<2, 2>>, dtype |-> "F32", device |-> "Cpu"],
      [data |-> <<1, 2, 3>>, shape |-> <<3>>, dtype |-> "F32", device |-> "Cpu"] }

PoolKinds == {"avg", "max"}
KernelSizes == {<<1, 1>>, <<2, 2>>, <<2, 1>>, <<3, 1>>}
PoolStrides == {<<1, 1>>, <<2, 1>>, <<0, 1>>}
Builds == {"debug", "release"}
ChunkCounts == {0, 1, 2, 3}
ChunkDims == {0, 1, 2}

NewPool ==
    /\ CanCall
    /\ \E a \in PoolArgs :
          Return(new_impl(World(0), a.data, a.shape, a.dtype, a.device, FALSE),
                 "new", <<>>, a.shape, 0)

AvgPool2dWithStride ==
    /\ CanCall
    /\ \E self \in handles, kernel_size \in KernelSizes, stride \in PoolStrides,
          build \in Builds :
          Return(avg_pool2d_with_stride(World(0), self, kernel_size, stride, build),
                 "avg_pool2d_with_stride", <<self>>, <<kernel_size, stride>>, 0)

MaxPool2dWithStride ==
    /\ CanCall
    /\ \E self \in handles, kernel_size \in KernelSizes, stride \in PoolStrides,
          build \in Builds :
          Return(max_pool2d_with_stride(World(0), self, kernel_size, stride, build),
                 "max_pool2d_with_stride", <<self>>, <<kernel_size, stride>>, 0)

\* a call returning a vector of tensors: the caller keeps every handle of it
ReturnVec(o, op, args, p, src) ==
    /\ tensors' = o.w.tensors
    /\ storages' = o.w.storages
    /\ COUNTER' = o.w.counter
    /\ handles' = IF o.ok THEN handles \cup Range(o.info) ELSE handles
    /\ IF o.ok /\ Range(o.info) \ handles # {}
       THEN nonew' = nonew
       ELSE nonew < MaxNoNew /\ nonew' = nonew + 1
    /\ lineage' = [i \in 1..Len(o.w.tensors) |->
                     IF i <= Len(lineage) THEN lineage[i]
                     ELSE IF o.ok /\ i \in Range(o.info)
                          THEN [from |-> src, op |-> "narrow", copied |-> FALSE,
                                alloc |-> 0]
                          ELSE [from |-> 0, op |-> op, copied |-> FALSE, alloc |-> 0]]
    /\ result' = [op |-> op, args |-> args, p |-> p, ok |-> o.ok, t |-> o.t,
                  err |-> o.err, info |-> o.info, backend |-> o.w.backend]
    /\ UNCHANGED <<guards, pending, issued, frame, waiting, policy>>

Chunk ==
    /\ CanCall
    /\ \E self \in handles, chunks \in ChunkCounts, dim \in ChunkDims :
          ReturnVec(chunk(World(0), self, chunks, dim), "chunk", <<self>>,
                    <<chunks, dim>>, self)

NextPool == NewPool \/ AvgPool2dWithStride \/ MaxPool2dWithStride \/ Chunk

SpecPool == Init /\ [][NextPool]_vars

(***************************************************************************)
(* arange_step, one step per iteration of its while loop.  `current +=     *)
(* step` panics on overflow in a build with overflow checks and wraps in a *)
(* build without them.                                                     *)
(***************************************************************************)
ArangeStarts == {0, 1, DTypeMod - 2}
ArangeEnds == {0, 3, DTypeMod - 1}
ArangeSteps == {0, 1, 3}

\* elements a vector holds before the allocator gives up
ArangeCap == DTypeMod

ArangeStep ==
    /\ frame.pc = "idle"
    /\ CanCall /\ nonew < MaxNoNew
    /\ \E start \in ArangeStarts, end \in ArangeEnds, step \in ArangeSteps,
          build \in Builds :
          frame' = [pc |-> "while", start |-> start, end |-> end, step |-> step,
                    current |-> start, data |-> <<>>, build |-> build]
    /\ UNCHANGED <<tensors, storages, COUNTER, handles, lineage, result, nonew, guards,
                   pending, issued, waiting, policy>>

\* one iteration: data.push(current); current += step
ArangeWhile ==
    /\ frame.pc = "while"
    /\ frame.current < frame.end
    /\ Len(frame.data) < ArangeCap
    /\ IF frame.current + frame.step >= DTypeMod /\ frame.build = "debug"
       THEN /\ Returned(Err(World(0), "Panic"), "arange_step", <<>>,
                        <<frame.start, frame.end, frame.step>>, 0)
            /\ frame' = NoFrame
       ELSE /\ frame' = [frame EXCEPT !.data = Append(@, frame.current),
                                      !.current = (@ + frame.step) % DTypeMod]
            /\ UNCHANGED <<tensors, storages, COUNTER, handles, lineage, result, nonew,
                           guards, pending, issued, waiting, policy>>

\* the loop is left: from_vec_impl(data, len, device, false)
ArangeReturn ==
    /\ frame.pc = "while"
    /\ ~(frame.current < frame.end)
    /\ Returned(from_vec_impl(World(0), frame.data, <<Len(frame.data)>>, "U8", "Cpu",
                              FALSE),
                "arange_step", <<>>, <<frame.start, frame.end, frame.step>>, 0)
    /\ frame' = NoFrame

NextArange == ArangeStep \/ ArangeWhile \/ ArangeReturn

SpecArange == Init /\ [][NextArange]_vars

\* a call that was started keeps running
SpecArangeLive == SpecArange /\ WF_vars(ArangeWhile) /\ WF_vars(ArangeReturn)

(***************************************************************************)
(* Blocking lock requests.  RwLock::read and RwLock::write block the       *)
(* calling thread until the lock can be granted; whether a waiting writer  *)
(* holds back new readers depends on the platform.                         *)
(***************************************************************************)
Policies == {"readers", "writers"}

InitBlocking == InitHeap /\ policy \in Policies

Blocked(th) == waiting[th] # NoRequest

HeldOn(lock) == {g \in guards : LockOf(g.t) = lock}

\* the other threads blocked in a write request for the lock
WritersWaiting(th, lock) ==
    {o \in Threads \ {th} : waiting[o].mode = "write" /\ LockOf(waiting[o].t) = lock}

\* a write lock granted over the read guards of the requesting thread
WriteAvailableUpgrading(th, lock) ==
    \A g \in HeldOn(lock) : g.th = th /\ g.mode = "read"

\* RwLock::write returns once nobody holds the lock
WriteAvailable(th, lock) == HeldOn(lock) = {}

\* RwLock::read returns once no writer holds the lock and, where writers are
\* preferred, none is waiting for it
ReadAvailable(th, lock) ==
    /\ GuardsOn(lock, "write") = {}
    /\ policy = "writers" => WritersWaiting(th, lock) = {}

CanGrant(th) ==
    CASE waiting[th].mode = "read" -> ReadAvailable(th, LockOf(waiting[th].t))
      [] waiting[th].mode = "write" -> WriteAvailable(th, LockOf(waiting[th].t))
      [] OTHER -> FALSE

\* a thread that is not blocked calls a locking method of a handle
LockCall(th, self, method, mode) ==
    /\ ~Blocked(th)
    /\ Cardinality(guards) + Cardinality({o \in Threads : Blocked(o)}) < MaxRequests
    /\ waiting' = [waiting EXCEPT ![th] = [t |-> self, method |-> method, mode |-> mode]]
    /\ UNCHANGED <<tensors, storages, COUNTER, handles, lineage, result, nonew, guards,
                   pending, issued, frame, policy>>

CallStorage(th, self) == LockCall(th, self, "storage", "read")

CallStorageMutAndLayout(th, self) ==
    LockCall(th, self, "storage_mut_and_layout", "write")

\* the lock is granted and the method returns the guard
LockGranted(th) ==
    /\ Blocked(th)
    /\ CanGrant(th)
    /\ guards' = guards \cup {[th |-> th, t |-> waiting[th].t,
                               method |-> waiting[th].method, mode |-> waiting[th].mode]}
    /\ waiting' = [waiting EXCEPT ![th] = NoRequest]
    /\ UNCHANGED <<tensors, storages, COUNTER, handles, lineage, result, nonew,
                   pending, issued, frame, policy>>

\* a running thread lets one of its guards go out of scope
GuardDropped(th) ==
    /\ ~Blocked(th)
    /\ \E g \in guards : g.th = th /\ guards' = guards \ {g}
    /\ UNCHANGED <<tensors, storages, COUNTER, handles, lineage, result, nonew,
                   pending, issued, frame, waiting, policy>>

NewShared ==
    /\ CanCall
    /\ Return(new_impl(World(0), <<1, 2>>, <<2>>, "F32", "Cpu", FALSE),
              "new", <<>>, <<2>>, 0)

NextBlocking ==
    \/ NewShared \/ Detach
    \/ \E th \in Threads, self \in handles :
          \/ CallStorage(th, self)
          \/ CallStorageMutAndLayout(th, self)
    \/ \E th \in Threads : LockGranted(th) \/ GuardDropped(th)

SpecBlocking == InitBlocking /\ [][NextBlocking]_vars

(***************************************************************************)
(* Building transposed convolution layers of several sizes.                *)
(***************************************************************************)
ConvChannels == {1, 2, 3}
ConvKernelSizes == {1, 2}

ConvTranspose2d ==
    /\ CanCall
    /\ \E in_channels \in ConvChannels, out_channels \in ConvChannels,
          kernel_size \in ConvKernelSizes :
          Return(conv_transpose2d(World(0), in_channels, out_channels, kernel_size),
                 "conv_transpose2d", <<>>,
                 <<in_channels, out_channels, kernel_size>>, 0)

ConvTranspose2dNoBias ==
    /\ CanCall
    /\ \E in_channels \in ConvChannels, out_channels \in ConvChannels,
          kernel_size \in ConvKernelSizes :
          Return(conv_transpose2d_no_bias(World(0), in_channels, out_channels,
                                          kernel_size),
                 "conv_transpose2d_no_bias", <<>>,
                 <<in_channels, out_channels, kernel_size>>, 0)

NextConv == ConvTranspose2d \/ ConvTranspose2dNoBias

SpecConv == Init /\ [][NextConv]_vars

(***************************************************************************)
(* Derivation paths.  A step of a path copies when it is one of the        *)
(* copying operations: copy, make_var, a dtype or device conversion,       *)
(* contiguous() of a non-contiguous tensor, or reshape, squeeze or         *)
(* unsqueeze of a non-contiguous tensor.  Every other step is a view.      *)
(***************************************************************************)
StepCopies(i) ==
    LET e == lineage[i] IN
    \/ e.op \in {"copy", "contiguous", "make_var", "to_dtype", "to_device"}
    \/ /\ e.op \in {"reshape", "squeeze", "unsqueeze"}
       /\ ~IsContiguous(tensors[e.from].layout)

RECURSIVE DerivedFrom(_, _)
DerivedFrom(u, t) ==
    u = t \/ (lineage[u].from # 0 /\ DerivedFrom(lineage[u].from, t))

RECURSIVE CopiedOnPath(_, _)
CopiedOnPath(u, t) ==
    u # t /\ (StepCopies(u) \/ CopiedOnPath(lineage[u].from, t))

\* the tensor a handle is, transitively, a view of
RECURSIVE ViewRoot(_)
ViewRoot(u) ==
    IF lineage[u].from = 0 \/ StepCopies(u) THEN u ELSE ViewRoot(lineage[u].from)

\* the logical elements read through a tensor, in row-major order
Elements(sts, t) ==
    LET idx == StridedIndex(t.layout) IN
    [k \in DOMAIN idx |-> sts[t.storage].data[idx[k] + 1]]

(***************************************************************************)
(* C1.  A tensor reached from t by view steps only (transpose, permute,    *)
(* narrow, broadcast_as, detach, and reshape, squeeze or unsqueeze of a    *)
(* contiguous tensor) has same_storage(t, u) true, and none of those steps *)
(* reached the backend or allocated a storage; same_storage(t, u) is false *)
(* exactly when some step of the path from t to u copied.                  *)
(***************************************************************************)
C1_ViewsShareStorage ==
    /\ \A v \in DOMAIN tensors :
          lineage[v].from # 0 /\ ~StepCopies(v) =>
             ~lineage[v].copied /\ lineage[v].alloc = 0
    /\ \A t \in DOMAIN tensors, u \in DOMAIN tensors :
          DerivedFrom(u, t) => (same_storage(t, u) <=> ~CopiedOnPath(u, t))

\* a transposed view that shares t's storage, and a reshape of that
\* non-contiguous view that does not
C1_Witness ==
    \E t \in DOMAIN tensors, v \in DOMAIN tensors, u \in DOMAIN tensors :
        /\ lineage[v].from = t /\ lineage[v].op = "transpose"
        /\ lineage[u].from = v /\ lineage[u].op = "reshape"
        /\ same_storage(t, v)
        /\ ~same_storage(t, u)

(***************************************************************************)
(* C2.  A write made through storage_mut_and_layout on t is in the buffer  *)
(* read by every tensor that shares t's storage (t's views and the tensors *)
(* t is a view of), at the address written; the buffers of all other       *)
(* tensors, the copies made from t among them, are as before the write;    *)
(* and no later operation changes a buffer, so later reads see the same.   *)
(***************************************************************************)
C2_WriteVisibility ==
    [][ /\ result'.op = "write" =>
              LET t == result'.args[1]
                  a == result'.p[1]
              IN  \A u \in DOMAIN tensors :
                     IF ViewRoot(u) = ViewRoot(t)
                     THEN storages'[tensors[u].storage].data[a + 1] = WriteVal
                     ELSE Elements(storages', tensors[u]) = Elements(storages, tensors[u])
        /\ result'.op # "write" =>
              \A u \in DOMAIN tensors :
                 storages'[tensors[u].storage] = storages[tensors[u].storage]
      ]_vars

\* a write through t read back through a view of t and absent from a copy of t
C2_Witness ==
    /\ result.op = "write"
    /\ \E u \in DOMAIN tensors, c \in DOMAIN tensors :
          LET t == result.args[1] IN
          /\ u # t /\ ViewRoot(u) = ViewRoot(t)
          /\ lineage[c].from = t /\ StepCopies(c)
          /\ WriteVal \in Range(Elements(storages, tensors[u]))
          /\ WriteVal \notin Range(storages[tensors[c].storage].data)

(***************************************************************************)
(* C3.  reshape to a shape with the receiver's element count returns a     *)
(* contiguous tensor of that shape.  A contiguous receiver: the call       *)
(* succeeds without a backend call, shares the receiver's storage and      *)
(* keeps its start_offset.  A non-contiguous receiver: the result owns a   *)
(* fresh buffer of exactly elem_count elements, at start_offset 0, holding *)
(* the receiver's logical elements in row-major order; only a backend      *)
(* failure makes the call fail.                                            *)
(***************************************************************************)
C3_ReshapeResult ==
    result.op = "reshape" =>
       LET self == result.args[1]
           src == tensors[self]
       IN  ElemCount(result.p) = ElemCount(src.layout.shape) =>
              IF ~result.ok
              THEN ~IsContiguous(src.layout) /\ result.err = "BackendExecutionFailure"
              ELSE LET r == tensors[result.t] IN
                   /\ r.layout.shape = result.p
                   /\ IsContiguous(r.layout)
                   /\ IF IsContiguous(src.layout)
                      THEN /\ r.storage = src.storage
                           /\ r.layout.start_offset = src.layout.start_offset
                           /\ result.backend = 0
                      ELSE /\ \A i \in DOMAIN tensors :
                                 i # result.t => tensors[i].storage # r.storage
                           /\ Len(storages[r.storage].data) = ElemCount(result.p)
                           /\ r.layout.start_offset = 0
                           /\ storages[r.storage].data = Elements(storages, src)

\* reshape of a transposed 2x2 tensor: the fresh buffer holds the columns
C3_Witness ==
    /\ result.op = "reshape" /\ result.ok
    /\ ~IsContiguous(tensors[result.args[1]].layout)
    /\ storages[tensors[result.t].storage].data = <<1, 3, 2, 4>>
    /\ storages[tensors[result.args[1]].storage].data = <<1, 2, 3, 4>>

(***************************************************************************)
(* C4.  No step changes the id, layout, dtype, device, op edge or          *)
(* is_variable flag of a tensor that exists.  to_dtype to another dtype    *)
(* and to_device to another device return a new tensor with a new id and a *)
(* storage no existing tensor points to; with the receiver's own dtype or  *)
(* device they return the receiver's handle and create nothing.            *)
(***************************************************************************)
C4_TensorsImmutable ==
    [][ /\ \A i \in DOMAIN tensors :
              /\ i \in DOMAIN tensors'
              /\ tensors'[i].id = tensors[i].id
              /\ tensors'[i].layout = tensors[i].layout
              /\ tensors'[i].dtype = tensors[i].dtype
              /\ tensors'[i].device = tensors[i].device
              /\ tensors'[i].op = tensors[i].op
              /\ tensors'[i].is_variable = tensors[i].is_variable
        /\ result'.op \in {"to_dtype", "to_device"} =>
              LET self == result'.args[1]
                  tag(t) == IF result'.op = "to_dtype" THEN t.dtype ELSE t.device
              IN  IF tag(tensors[self]) = result'.p[1]
                  THEN /\ result'.ok /\ result'.t = self
                       /\ Len(tensors') = Len(tensors)
                       /\ Len(storages') = Len(storages)
                  ELSE result'.ok =>
                          LET r == tensors'[result'.t] IN
                          /\ result'.t \notin DOMAIN tensors
                          /\ \A i \in DOMAIN tensors :
                                tensors[i].id # r.id /\ tensors'[i].storage # r.storage
                          /\ tag(r) = result'.p[1]
      ]_vars

\* a conversion to another dtype returned a tensor of its own
C4_Witness ==
    /\ result.op = "to_dtype" /\ result.ok
    /\ result.t # result.args[1]
    /\ tensors[result.t].dtype # tensors[result.args[1]].dtype
    /\ ~same_storage(result.t, result.args[1])

(***************************************************************************)
(* C5.  Every tensor's dtype and device tags are those of the storage it   *)
(* points to, and two tensors that share a storage carry the same tags.    *)
(***************************************************************************)
C5_TagsAgreeWithStorage ==
    /\ \A i \in DOMAIN tensors :
          /\ tensors[i].dtype = storages[tensors[i].storage].dtype
          /\ tensors[i].device = storages[tensors[i].storage].device
    /\ \A i \in DOMAIN tensors, j \in DOMAIN tensors :
          tensors[i].storage = tensors[j].storage =>
             tensors[i].dtype = tensors[j].dtype /\ tensors[i].device = tensors[j].device

\* a view sharing its source's storage next to a tensor moved to the other device
C5_Witness ==
    \E i \in DOMAIN tensors, j \in DOMAIN tensors, k \in DOMAIN tensors :
        /\ i # j /\ tensors[i].storage = tensors[j].storage
        /\ lineage[k].op = "to_device" /\ lineage[k].from = i
        /\ tensors[k].device # tensors[i].device

(***************************************************************************)
(* C6.  For every tensor, strided_index yields exactly elem_count(shape)   *)
(* offsets and each of them lies inside the buffer of the tensor's         *)
(* storage; to_vec2 never fails its exhaustion assertion nor reads outside *)
(* the buffer.                                                             *)
(***************************************************************************)
C6_LayoutInBounds ==
    /\ \A i \in DOMAIN tensors :
          LET idx == StridedIndex(tensors[i].layout)
              n == Len(storages[tensors[i].storage].data)
          IN  /\ Len(idx) = ElemCount(tensors[i].layout.shape)
              /\ \A k \in DOMAIN idx : idx[k] >= 0 /\ idx[k] < n
    /\ result.op = "to_vec2" => result.err # "Panic"

\* to_vec2 walked the strided index of a zeros tensor built by broadcasting a scalar
C6_Witness ==
    /\ result.op = "to_vec2" /\ result.ok
    /\ tensors[result.args[1]].layout.stride = <<0, 0>>
    /\ Len(storages[tensors[result.args[1]].storage].data) = 1

(***************************************************************************)
(* C7.  Under any interleaving of the threads, the identifiers handed out  *)
(* are 1, 2, 3, ... in the order of the fetch_add calls, and no two        *)
(* tensors, published or under construction, hold the same identifier.     *)
(***************************************************************************)
C7_TensorIdsUnique ==
    /\ \A i \in DOMAIN issued : issued[i] = i
    /\ \A i \in DOMAIN tensors, j \in DOMAIN tensors :
          i # j => tensors[i].id # tensors[j].id
    /\ \A th \in Threads :
          pending[th] # 0 =>
             /\ \A i \in DOMAIN tensors : tensors[i].id # pending[th]
             /\ \A other \in Threads : other # th => pending[other] # pending[th]

\* the thread that fetched the later identifier published its tensor first
C7_Witness ==
    /\ Len(tensors) >= 2
    /\ tensors[1].id > tensors[2].id
    /\ Len(issued) >= 3

(***************************************************************************)
(* C8.  For each storage, counting the guards held through every handle    *)
(* that points to it: either no write guard is held, or exactly one write  *)
(* guard and no read guard.  storage and storage_and_layout hold read      *)
(* guards, storage_mut_and_layout alone holds a write guard.               *)
(***************************************************************************)
C8_ReadersXorWriter ==
    /\ \A s \in DOMAIN storages :
          LET on(mode) == {g \in guards : tensors[g.t].storage = s /\ g.mode = mode}
          IN  \/ on("write") = {}
              \/ Cardinality(on("write")) = 1 /\ on("read") = {}
    /\ \A g \in guards : g.mode = "write" <=> g.method = "storage_mut_and_layout"

\* a write guard taken through one handle while a view of it is held as well,
\* next to a read guard on another storage
C8_Witness ==
    \E g \in guards, h \in guards, u \in handles :
        /\ g.mode = "write" /\ h.mode = "read" /\ g.th # h.th
        /\ u # g.t /\ tensors[u].storage = tensors[g.t].storage

(***************************************************************************)
(* C9.  A call that returns an error leaves every tensor and every storage *)
(* that existed before it as they were; and whatever a call returns, it    *)
(* changes no storage that existed before it: it writes only into storage  *)
(* it allocated itself.                                                    *)
(***************************************************************************)
C9_FailedCallsLeaveNoTrace ==
    [][ /\ ~result'.ok =>
              /\ Len(tensors') >= Len(tensors)
              /\ SubSeq(tensors', 1, Len(tensors)) = tensors
              /\ Len(storages') >= Len(storages)
              /\ SubSeq(storages', 1, Len(storages)) = storages
        /\ \A s \in DOMAIN storages : s \in DOMAIN storages' /\ storages'[s] = storages[s]
      ]_vars

\* a call failed in its second backend call, after it had allocated its destination
C9_Witness ==
    /\ ~result.ok
    /\ result.err = "BackendExecutionFailure"
    /\ result.backend = 2
    /\ result.op \in {"contiguous", "reshape", "cat"}

(***************************************************************************)
(* C10, as stated.  In cat, broadcast_matmul and the broadcast_* binary    *)
(* wrappers a call that fails a precondition check has made no backend     *)
(* call.                                                                   *)
(***************************************************************************)
C10_AllChecksBeforeBackend ==
    /\ result.op \in {"cat", "broadcast_add", "broadcast_matmul"}
    /\ ~result.ok
    /\ result.err # "BackendExecutionFailure"
    => result.backend = 0

(***************************************************************************)
(* C10, amended.  cat and the broadcast_* binary wrappers make no backend  *)
(* call before a failing precondition check.  broadcast_matmul makes none  *)
(* before its broadcast-shape check fails; when an operand needs           *)
(* broadcasting it is materialised by contiguous() before matmul's shape   *)
(* check and the storage layer's dtype and device checks, which then fail  *)
(* after backend calls.                                                    *)
(***************************************************************************)
C10_ChecksBeforeBackend ==
    /\ ~result.ok /\ result.err # "BackendExecutionFailure" =>
          /\ result.op \in {"cat", "broadcast_add"} => result.backend = 0
          /\ result.op = "broadcast_matmul" =>
                LET ls == tensors[result.args[1]].layout.shape
                    rs == tensors[result.args[2]].layout.shape
                    bc == BroadcastShapeMatmul(ls, rs)
                IN  \/ result.backend = 0
                    \/ /\ result.err \in {"ShapeMismatchBinaryOp(matmul)",
                                          "DTypeMismatchBinaryOp",
                                          "DeviceMismatchBinaryOp"}
                       /\ bc.ok
                       /\ bc.l_shape # ls \/ bc.r_shape # rs

\* cat rejected operands that differ off the concatenation axis, before any backend call
C10_Witness ==
    /\ result.op = "cat" /\ ~result.ok
    /\ result.err = "ShapeMismatchCat"
    /\ result.backend = 0

(***************************************************************************)
(* Shapes of the operands of the last call.                                *)
(***************************************************************************)
ArgShape(i) == tensors[result.args[i]].layout.shape

\* the leading dimensions of a matrix-product operand: all but the last two
BatchDims(shape) == SubSeq(shape, 1, Len(shape) - 2)

\* errors raised below the shape checks: by the storage layer or the backend
StorageErrors ==
    {"BackendExecutionFailure", "DeviceMismatchBinaryOp", "DTypeMismatchBinaryOp",
     "UnsupportedDTypeForOp"}

(***************************************************************************)
(* C11.  matmul succeeds only if both operands have the same rank, at      *)
(* least 2, their leading (batch) dimensions are identical dimension by    *)
(* dimension, and the last dimension of a equals the second-to-last of b;  *)
(* otherwise the call fails with a shape mismatch error naming matmul and  *)
(* carrying both shapes.  On success the result's shape is a's batch       *)
(* dimensions followed by (m, n).                                          *)
(***************************************************************************)
C11_MatmulShapeRule ==
    result.op = "matmul" =>
       LET a == ArgShape(1)
           b == ArgShape(2)
           rank == Len(a)
           fits == /\ rank >= 2
                   /\ Len(b) = rank
                   /\ BatchDims(a) = BatchDims(b)
                   /\ a[rank] = b[rank - 1]
       IN  /\ result.ok => fits
           /\ ~fits => /\ ~result.ok
                       /\ result.err = "ShapeMismatchBinaryOp(matmul)"
                       /\ result.info = [lhs |-> a, rhs |-> b, op |-> "matmul"]
           /\ result.ok =>
                 tensors[result.t].layout.shape
                    = BatchDims(a) \o <<a[rank - 1], b[rank]>>

(***************************************************************************)
(* C12.  add, sub, mul, div, maximum, minimum, cmp and where_cond return   *)
(* a ShapeMismatchBinaryOp error carrying both operand shapes and the      *)
(* operation's name whenever the operand shapes are not exactly equal,     *)
(* and they do so without calling the backend; when the shapes are equal   *)
(* the result has that shape.                                              *)
(***************************************************************************)
SameShapeOps == BinaryOps \cup {"cmp", "where_cond"}

\* the operands of the last call whose shape differs from the receiver's
Mismatched == {i \in 2..Len(result.args) : ArgShape(i) # ArgShape(1)}

C12_SameShapeRequired ==
    result.op \in SameShapeOps =>
       /\ Mismatched # {} =>
             LET i == CHOOSE j \in Mismatched : \A k \in Mismatched : j <= k
             IN  /\ ~result.ok
                 /\ result.err = "ShapeMismatchBinaryOp(" \o result.op \o ")"
                 /\ result.info
                      = [lhs |-> ArgShape(1), rhs |-> ArgShape(i), op |-> result.op]
                 /\ result.backend = 0
       /\ Mismatched = {} /\ result.ok =>
             tensors[result.t].layout.shape = ArgShape(1)

\* div of a (1, 2) tensor by a (2) tensor: as many elements, another shape
C12_Witness ==
    /\ result.op = "div" /\ ~result.ok
    /\ ArgShape(1) = <<1, 2>> /\ ArgShape(2) = <<2>>
    /\ result.err = "ShapeMismatchBinaryOp(div)"
    /\ result.info = [lhs |-> <<1, 2>>, rhs |-> <<2>>, op |-> "div"]

(***************************************************************************)
(* C13.  broadcast_add(a, b) has the shape and the values of               *)
(* a.broadcast_as(S).add(b.broadcast_as(S)), S being the broadcast of the  *)
(* two shapes; an operand whose shape already is S is passed on unchanged, *)
(* with no view made of it, and an operand that needs broadcasting is      *)
(* replaced by a zero-copy view sharing its storage.  The same holds for   *)
(* broadcast_sub, broadcast_mul, broadcast_div, broadcast_maximum and      *)
(* broadcast_minimum.                                                      *)
(***************************************************************************)
BroadcastOps == {"broadcast_" \o name : name \in BinaryOps}

\* the outcome of a.broadcast_as(shape).name(b.broadcast_as(shape))
BroadcastAsThenOp(w, a, b, shape, name) ==
    LET x == broadcast_as(w, a, shape) IN
    IF ~x.ok THEN x
    ELSE LET y == broadcast_as(x.w, b, shape) IN
         IF ~y.ok THEN y ELSE binary_op(y.w, x.t, y.t, name)

C13_BroadcastAsThenOp ==
    [][ result'.op \in BroadcastOps =>
          LET a == result'.args[1]
              b == result'.args[2]
              sa == tensors[a].layout.shape
              sb == tensors[b].layout.shape
              n == Len(tensors)
          IN  \A bc \in {BroadcastShapeBinaryOp(sa, sb)} :
                 bc.ok =>
                   \A ref \in {BroadcastAsThenOp(World(0), a, b, bc.shape, result'.p[1])},
                      views \in {(IF sa # bc.shape THEN <<a>> ELSE <<>>)
                                    \o (IF sb # bc.shape THEN <<b>> ELSE <<>>)} :
                      /\ result'.ok = ref.ok
                      /\ result'.err = ref.err
                      /\ Len(tensors') = n + Len(views) + (IF ref.ok THEN 1 ELSE 0)
                      /\ \A i \in DOMAIN views :
                            /\ tensors'[n + i].layout.shape = bc.shape
                            /\ tensors'[n + i].storage = tensors[views[i]].storage
                      /\ result'.ok =>
                            /\ tensors'[result'.t].layout.shape
                                 = ref.w.tensors[ref.t].layout.shape
                            /\ \A e \in {Elements(ref.w.storages, ref.w.tensors[ref.t])} :
                                  Elements(storages', tensors'[result'.t]) = e
                            /\ Len(storages') = Len(storages) + 1
                            /\ result'.backend = 1
      ]_vars

\* broadcast_sub of a (2, 1) tensor and a (1, 2) tensor: a view of each operand
C13_Witness ==
    /\ result.op = "broadcast_sub" /\ result.ok
    /\ ArgShape(1) = <<2, 1>> /\ ArgShape(2) = <<1, 2>>
    /\ tensors[result.t].layout.shape = <<2, 2>>
    /\ Elements(storages, tensors[result.t]) = <<2, 1, 3, 2>>
    /\ Len(tensors) = 5 /\ Len(storages) = 3
    /\ same_storage(3, result.args[1]) /\ same_storage(4, result.args[2])

(***************************************************************************)
(* The receiver of the last call, before and after it.                     *)
(***************************************************************************)
Receiver == tensors[result.args[1]]

\* the arguments of a step's call, read after the step
Receiver1 == tensors[result'.args[1]]

(***************************************************************************)
(* C14.  For every tensor, every valid dim and all usize values of start   *)
(* and len, those whose sum overflows included, narrow returns the typed   *)
(* NarrowInvalidArgs error and creates no tensor exactly when start + len  *)
(* exceeds the size of the dimension; otherwise it returns a tensor whose  *)
(* size along dim is len, whose other dimensions are unchanged and which   *)
(* shares the receiver's storage.                                          *)
(***************************************************************************)
C14_NarrowChecked ==
    [][ result'.op = "narrow" =>
          LET dims == Receiver1.layout.shape
              dim == result'.p[1]
              start == result'.p[2]
              len == result'.p[3]
          IN  dim < Len(dims) =>
                IF start + len > dims[dim + 1]
                THEN /\ ~result'.ok
                     /\ result'.err = "NarrowInvalidArgs"
                     /\ tensors' = tensors
                ELSE /\ result'.ok
                     /\ tensors'[result'.t].layout.shape = [dims EXCEPT ![dim + 1] = len]
                     /\ tensors'[result'.t].storage = Receiver1.storage
      ]_vars

(***************************************************************************)
(* C15.  permute succeeds if and only if dims is a bijection over          *)
(* 0..rank, and transpose succeeds if and only if both indices are within  *)
(* the rank; a failure is a typed error and creates no tensor; on success  *)
(* dimension i of permute's result has the size of source dimension        *)
(* dims[i].                                                                *)
(***************************************************************************)
IsBijection(dims, rank) ==
    /\ Len(dims) = rank
    /\ \A i \in 1..Len(dims), j \in 1..Len(dims) : dims[i] = dims[j] => i = j
    /\ \A i \in 1..Len(dims) : dims[i] \in 0..(rank - 1)

TypedErrors ==
    {"DimOutOfRange", "InvalidArgument", "UnexpectedNumberOfDims", "NarrowInvalidArgs",
     "BroadcastIncompatibleShapes", "ShapeMismatch", "ShapeMismatchCat",
     "OpRequiresAtLeastOneTensor"} \cup StorageErrors

C15_PermuteTranspose ==
    [][ /\ result'.op = "permute" =>
             LET src == Receiver1.layout.shape
                 dims == result'.p
             IN  /\ result'.ok <=> IsBijection(dims, Len(src))
                 /\ ~result'.ok => result'.err \in TypedErrors /\ tensors' = tensors
                 /\ result'.ok =>
                       /\ Len(tensors') = Len(tensors) + 1
                       /\ tensors'[result'.t].layout.shape
                            = [i \in 1..Len(dims) |-> src[dims[i] + 1]]
        /\ result'.op = "transpose" =>
             LET src == Receiver1.layout.shape
                 dim1 == result'.p[1]
                 dim2 == result'.p[2]
             IN  /\ result'.ok <=> dim1 < Len(src) /\ dim2 < Len(src)
                 /\ ~result'.ok => result'.err \in TypedErrors /\ tensors' = tensors
                 /\ result'.ok => Len(tensors') = Len(tensors) + 1
      ]_vars

\* permute((2, 0, 1)) of a (1, 2, 3) tensor
C15_Witness ==
    /\ result.op = "permute" /\ result.ok
    /\ result.p = <<2, 0, 1>>
    /\ Receiver.layout.shape = <<1, 2, 3>>
    /\ tensors[result.t].layout.shape = <<3, 1, 2>>

(***************************************************************************)
(* C16.  contiguous() returns the receiver's own handle when the receiver  *)
(* is contiguous; otherwise it returns a new contiguous tensor backed by a *)
(* fresh storage, with the receiver's shape and logical values.  It is     *)
(* idempotent: contiguous() of its result returns that result.             *)
(***************************************************************************)
C16_Contiguous ==
    result.op = "contiguous" /\ result.ok =>
       /\ IsContiguous(Receiver.layout) => result.t = result.args[1]
       /\ ~IsContiguous(Receiver.layout) =>
             /\ result.t # result.args[1]
             /\ tensors[result.t].id # Receiver.id
             /\ IsContiguous(tensors[result.t].layout)
             /\ tensors[result.t].layout.shape = Receiver.layout.shape
             /\ Elements(storages, tensors[result.t]) = Elements(storages, Receiver)
             /\ \A u \in DOMAIN tensors :
                   u # result.t => tensors[u].storage # tensors[result.t].storage
             /\ lineage[result.t].alloc = 1
       /\ \A again \in {contiguous(World(0), result.t)} :
             again.ok /\ again.t = result.t /\ again.w.tensors = tensors

\* contiguous() of the transpose of a (2, 3) tensor
C16_Witness ==
    /\ result.op = "contiguous" /\ result.ok
    /\ Receiver.layout.shape = <<3, 2>> /\ Receiver.layout.stride = <<1, 3>>
    /\ tensors[result.t].layout.stride = <<2, 1>>
    /\ Elements(storages, tensors[result.t]) = <<1, 4, 2, 5, 3, 6>>
    /\ storages[tensors[result.t].storage].data = <<1, 4, 2, 5, 3, 6>>

(***************************************************************************)
(* C17.  For every tensor t, contiguous or not, and every shape s2 with    *)
(* as many elements as t, t.reshape(s2).reshape(t.dims()) succeeds and     *)
(* yields a tensor with t's shape and t's logical values in row-major      *)
(* order.                                                                  *)
(***************************************************************************)
C17_ReshapeRoundTrip ==
    /\ result.op = "reshape_back"
    /\ ElemCount(result.p) = ElemCount(Receiver.layout.shape)
    /\ result.err # "BackendExecutionFailure"
    => /\ result.ok
       /\ tensors[result.t].layout.shape = Receiver.layout.shape
       /\ Elements(storages, tensors[result.t]) = Elements(storages, Receiver)

\* the transpose of a (2, 3) tensor reshaped to (6) and back to (3, 2)
C17_Witness ==
    /\ result.op = "reshape_back" /\ result.ok
    /\ result.p = <<6>>
    /\ Receiver.layout.shape = <<3, 2>> /\ Receiver.layout.stride = <<1, 3>>
    /\ tensors[result.t].layout.shape = <<3, 2>>
    /\ Elements(storages, tensors[result.t]) = <<1, 4, 2, 5, 3, 6>>

(***************************************************************************)
(* C18.  t.transpose(d1, d2).transpose(d1, d2) has the shape, the strides, *)
(* the start offset, the storage and the logical values of t; it is a new  *)
(* handle with a new id.                                                   *)
(***************************************************************************)
C18_TransposeInvolution ==
    result.op = "transpose_twice" /\ result.ok =>
       /\ tensors[result.t].layout.shape = Receiver.layout.shape
       /\ tensors[result.t].layout.stride = Receiver.layout.stride
       /\ tensors[result.t].layout.start_offset = Receiver.layout.start_offset
       /\ tensors[result.t].storage = Receiver.storage
       /\ Elements(storages, tensors[result.t]) = Elements(storages, Receiver)
       /\ result.t # result.args[1]
       /\ tensors[result.t].id # Receiver.id

\* twice transposing column 1 of a (2, 3) tensor
C18_Witness ==
    /\ result.op = "transpose_twice" /\ result.ok
    /\ result.p = <<0, 1>>
    /\ Receiver.layout = [shape |-> <<2, 1>>, stride |-> <<3, 1>>, start_offset |-> 1]
    /\ tensors[result.t].layout = Receiver.layout
    /\ Elements(storages, tensors[result.t]) = <<2, 5>>

(***************************************************************************)
(* Operands of a concatenation.                                            *)
(***************************************************************************)
\* operand i differs from the first in rank, dtype, device, or in the size of a
\* dimension other than dim
DiffersFromFirst(i, dim) ==
    LET arg0 == tensors[result.args[1]]
        arg == tensors[result.args[i]]
    IN  \/ arg.dtype # arg0.dtype
        \/ arg.device # arg0.device
        \/ Len(arg.layout.shape) # Len(arg0.layout.shape)
        \/ \E k \in 1..Len(arg0.layout.shape) :
              k # dim + 1 /\ arg.layout.shape[k] # arg0.layout.shape[k]

Differing(dim) == {i \in 2..Len(result.args) : DiffersFromFirst(i, dim)}

(***************************************************************************)
(* C19.  With c = cat([a, b], d), c.narrow(d, 0, a.dim(d)) has the values  *)
(* of a and c.narrow(d, a.dim(d), b.dim(d)) has the values of b, for d = 0 *)
(* and for d other than 0.                                                 *)
(***************************************************************************)
C19_CatThenNarrow ==
    result.op = "cat_narrow" =>
       /\ Differing(result.p[1]) = {} /\ result.err # "BackendExecutionFailure"
             => result.ok
       /\ result.ok =>
             LET first == tensors[result.t - 1]
                 second == tensors[result.t]
             IN  /\ first.layout.shape = ArgShape(1)
                 /\ second.layout.shape = ArgShape(2)
                 /\ Elements(storages, first) = Elements(storages, tensors[result.args[1]])
                 /\ Elements(storages, second)
                      = Elements(storages, tensors[result.args[2]])

\* a (2, 2) and a (2, 1) tensor concatenated along dimension 1
C19_Witness ==
    /\ result.op = "cat_narrow" /\ result.ok
    /\ result.p = <<1>>
    /\ ArgShape(1) = <<2, 2>> /\ ArgShape(2) = <<2, 1>>
    /\ tensors[result.t - 2].layout.shape = <<2, 3>>
    /\ Elements(storages, tensors[result.t - 2]) = <<1, 2, 7, 3, 4, 8>>
    /\ Elements(storages, tensors[result.t - 1]) = <<1, 2, 3, 4>>
    /\ Elements(storages, tensors[result.t]) = <<7, 8>>

(***************************************************************************)
(* Outcome of cat and stack on operands that agree.                        *)
(***************************************************************************)
Operands == 1..Len(result.args)

\* cat succeeds with the first operand's dims, dimension dim being the sum
CatSucceeded(dim) ==
    /\ result.ok
    /\ tensors[result.t].layout.shape
         = [ArgShape(1) EXCEPT ![dim + 1] = SumSeq([i \in Operands |-> ArgShape(i)[dim + 1]])]

\* stack of operands of one shape, dtype and device has one more dimension, of
\* size len(args), at position dim
StackRule ==
    /\ result.op = "stack" /\ Len(result.args) >= 1
    /\ result.p[1] <= Len(ArgShape(1))
    /\ \A i \in Operands :
          /\ ArgShape(i) = ArgShape(1)
          /\ tensors[result.args[i]].dtype = tensors[result.args[1]].dtype
          /\ tensors[result.args[i]].device = tensors[result.args[1]].device
    /\ result.err # "BackendExecutionFailure"
    => /\ result.ok
       /\ tensors[result.t].layout.shape
            = InsertAt(ArgShape(1), result.p[1] + 1, Len(result.args))

CatMismatchErrors ==
    {"UnexpectedNumberOfDims", "DTypeMismatchBinaryOp(cat)", "DeviceMismatchBinaryOp(cat)",
     "ShapeMismatchCat"}

(***************************************************************************)
(* C20 as stated.  cat of two or more operands returns a rank, dtype,      *)
(* device or shape mismatch error whenever some operand differs from the   *)
(* first in rank, dtype, device or the size of a dimension other than d;   *)
(* otherwise it succeeds with the first operand's dims except that         *)
(* dimension d is the sum of the operands' sizes along d.  stack(args, d)  *)
(* yields rank + 1 dimensions, the new one of size len(args) at position   *)
(* d.                                                                      *)
(***************************************************************************)
C20_CatMismatchKinds ==
    /\ /\ result.op = "cat" /\ Len(result.args) >= 2
       /\ result.p[1] < Len(ArgShape(1))
       /\ result.err # "BackendExecutionFailure"
       => /\ Differing(result.p[1]) # {} =>
                ~result.ok /\ result.err \in CatMismatchErrors
          /\ Differing(result.p[1]) = {} => CatSucceeded(result.p[1])
    /\ StackRule

(***************************************************************************)
(* C20.  cat of two or more operands returns a typed error whenever some   *)
(* operand differs from the first in rank, dtype, device or the size of a  *)
(* dimension other than d: a dimension-out-of-range error when an          *)
(* operand's rank is d or less, and otherwise a dtype, device, rank or     *)
(* shape mismatch error.  When no operand differs it succeeds with the     *)
(* first operand's dims except that dimension d is the sum of the          *)
(* operands' sizes along d.  stack(args, d) yields rank + 1 dimensions,    *)
(* the new one of size len(args) at position d.                            *)
(***************************************************************************)
C20_CatStack ==
    /\ /\ result.op = "cat" /\ Len(result.args) >= 2
       /\ result.p[1] < Len(ArgShape(1))
       /\ result.err # "BackendExecutionFailure"
       => /\ Differing(result.p[1]) # {} =>
                /\ ~result.ok
                /\ IF \E i \in Operands : Len(ArgShape(i)) <= result.p[1]
                   THEN result.err = "DimOutOfRange"
                   ELSE result.err \in CatMismatchErrors
          /\ Differing(result.p[1]) = {} => CatSucceeded(result.p[1])
    /\ StackRule

\* cat along dimension 1 of a (2, 2) tensor and a (2) tensor
C20_Witness ==
    /\ result.op = "cat" /\ ~result.ok
    /\ result.p = <<1>> /\ Len(result.args) = 2
    /\ ArgShape(1) = <<2, 2>> /\ ArgShape(2) = <<2>>
    /\ result.err = "DimOutOfRange"

(***************************************************************************)
(* Errors of the indexing operations.                                      *)
(***************************************************************************)
\* errors raised below the shape checks of an indexing call
IndexStorageErrors == StorageErrors \cup {"InvalidIndex"}

\* the last call failed with a shape mismatch naming op, before any backend call
ShapeMismatchNaming(op) ==
    /\ ~result.ok
    /\ result.err = "ShapeMismatchBinaryOp(" \o op \o ")"
    /\ result.info.op = op
    /\ result.backend = 0

\* self and source of index_add agree in rank and in every dimension but dim
IndexAddOperandsAgree(dim) ==
    /\ Len(ArgShape(3)) = Len(ArgShape(1))
    /\ \A i \in 1..Len(ArgShape(1)) : i # dim + 1 => ArgShape(1)[i] = ArgShape(3)[i]

(***************************************************************************)
(* C21 as stated.  index_select(indexes, dim) and index_add(indexes,       *)
(* source, dim) each fail with a shape-mismatch error naming the operation *)
(* unless indexes is 1-D and its length equals the size along dim of the   *)
(* source tensor (self for index_select, source for index_add); no backend *)
(* call is made on failure.                                                *)
(***************************************************************************)
C21_IndexLengthRequired ==
    /\ /\ result.op = "index_select"
       /\ result.p[1] < Len(ArgShape(1))
       /\ ~(Len(ArgShape(2)) = 1 /\ ArgShape(2)[1] = ArgShape(1)[result.p[1] + 1])
       => ShapeMismatchNaming("index-select")
    /\ /\ result.op = "index_add"
       /\ result.p[1] < Len(ArgShape(1))
       /\ IndexAddOperandsAgree(result.p[1])
       /\ ~(Len(ArgShape(2)) = 1 /\ ArgShape(2)[1] = ArgShape(3)[result.p[1] + 1])
       => ShapeMismatchNaming("index-add (ids, source))")

(***************************************************************************)
(* C21.  index_select(indexes, dim) fails with a shape-mismatch error      *)
(* naming index-select, before any backend call, exactly when indexes is   *)
(* not 1-D; a 1-D indexes of any length is accepted and its length becomes *)
(* the size of the result along dim.  index_add(indexes, source, dim), for *)
(* self and source agreeing outside dim, fails before any backend call     *)
(* with the rank error of dims1 when indexes is not 1-D and with a         *)
(* shape-mismatch error naming index-add when the length of indexes is not *)
(* the size of source along dim; otherwise its result has self's shape.    *)
(***************************************************************************)
C21_IndexChecks ==
    /\ result.op = "index_select" /\ result.p[1] < Len(ArgShape(1)) =>
          IF Len(ArgShape(2)) # 1
          THEN /\ ShapeMismatchNaming("index-select")
               /\ result.info.lhs = ArgShape(1) /\ result.info.rhs = ArgShape(2)
          ELSE /\ ~result.ok => result.err \in IndexStorageErrors
               /\ result.ok =>
                     tensors[result.t].layout.shape
                        = [ArgShape(1) EXCEPT ![result.p[1] + 1] = ArgShape(2)[1]]
    /\ /\ result.op = "index_add" /\ result.p[1] < Len(ArgShape(1))
       /\ IndexAddOperandsAgree(result.p[1])
       => IF Len(ArgShape(2)) # 1
          THEN ~result.ok /\ result.err = "UnexpectedNumberOfDims" /\ result.backend = 0
          ELSE IF ArgShape(2)[1] # ArgShape(3)[result.p[1] + 1]
          THEN /\ ShapeMismatchNaming("index-add (ids, source))")
               /\ result.info.lhs = ArgShape(2) /\ result.info.rhs = ArgShape(3)
          ELSE /\ ~result.ok => result.err \in IndexStorageErrors
               /\ result.ok => tensors[result.t].layout.shape = ArgShape(1)

\* three rows selected from a (2, 2) tensor along dimension 0
C21_Witness ==
    /\ result.op = "index_select" /\ result.ok
    /\ result.p = <<0>>
    /\ ArgShape(1) = <<2, 2>> /\ ArgShape(2) = <<3>>
    /\ tensors[result.t].layout.shape = <<3, 2>>
    /\ Elements(storages, tensors[result.t]) = <<3, 4, 1, 2, 3, 4>>

(***************************************************************************)
(* Sums over a set of axes.                                                *)
(***************************************************************************)
SumOps == {"sum", "sum_keepdim"}

\* the axes of the last call are distinct and valid for its operand
ValidAxes ==
    /\ \A i \in DOMAIN result.p : result.p[i] < Len(ArgShape(1))
    /\ \A i, j \in DOMAIN result.p : i # j => result.p[i] # result.p[j]

\* the operand's shape with every summed axis set to 1
KeptShape ==
    [i \in DOMAIN ArgShape(1) |->
        IF \E n \in DOMAIN result.p : result.p[n] = i - 1 THEN 1 ELSE ArgShape(1)[i]]

\* the operand's shape with exactly the summed axes removed
RemovedShape ==
    LET kept == {i \in DOMAIN ArgShape(1) : \A n \in DOMAIN result.p : result.p[n] # i - 1}
        nth(n) == CHOOSE i \in kept : Cardinality({j \in kept : j < i}) = n - 1
    IN  [n \in 1..Cardinality(kept) |-> ArgShape(1)[nth(n)]]

\* the sums of the operand's elements over the summed axes, in row-major order
SumsOverAxes ==
    LET e == Elements(storages, tensors[result.args[1]])
        same(j, k) ==
            \A i \in DOMAIN ArgShape(1) :
                \/ \E n \in DOMAIN result.p : result.p[n] = i - 1
                \/ Unravel(j - 1, ArgShape(1))[i] = Unravel(k - 1, KeptShape)[i]
    IN  [k \in 1..ElemCount(KeptShape) |->
            SumSeq([j \in 1..Len(e) |-> IF same(j, k) THEN e[j] ELSE 0])]

\* C22: for distinct valid axes D, sum_keepdim(D) has the operand's shape with each
\* axis of D set to 1 and sum(D) has it with exactly the axes of D removed (for no
\* axis, one axis and several axes alike), and every output element is the sum of
\* the operand over the axes of D; only a backend failure makes the call fail
C22_SumShapes ==
    (result.op \in SumOps /\ Len(result.args) = 1 /\ ValidAxes
        /\ result.err \notin StorageErrors)
    => /\ result.ok
       /\ tensors[result.t].layout.shape
             = (IF result.op = "sum_keepdim" THEN KeptShape ELSE RemovedShape)
       /\ Elements(storages, tensors[result.t]) = SumsOverAxes

\* [[0, 1], [2, 3]] summed over axis 0 with the axis kept is [[2, 4]]
C22_Witness ==
    /\ result.op = "sum_keepdim" /\ result.ok /\ Len(result.args) = 1
    /\ result.p = <<0>>
    /\ Elements(storages, tensors[result.args[1]]) = <<0, 1, 2, 3>>
    /\ ArgShape(1) = <<2, 2>>
    /\ tensors[result.t].layout.shape = <<1, 2>>
    /\ Elements(storages, tensors[result.t]) = <<2, 4>>

(***************************************************************************)
(* Gradient tracking.                                                      *)
(***************************************************************************)
\* track_op() of a tensor of the current state
Tracked(t) == tensors[t].is_variable \/ tensors[t].op.kind # "None"

\* a tensor is a variable or reaches one through its recorded operand edges
RECURSIVE DependsOnVariable(_)
DependsOnVariable(t) ==
    \/ tensors[t].is_variable
    \/ \E i \in DOMAIN tensors[t].op.args : DependsOnVariable(tensors[t].op.args[i])

\* the operations that never record an edge
UntrackedOps == {"detach", "apply_op2_no_bwd"}

\* the operations deriving a tensor from operands
DerivingOps ==
    BinaryOps \cup {"detach", "transpose", "cmp", "apply_op2", "apply_op2_no_bwd"}

\* C23: track_op() is true iff the tensor is a variable or depends on a variable
\* through its recorded operand edges; the result of an operation carries an Op
\* edge iff at least one of its operands is tracked, except that the results of
\* detach and of the no_bwd custom ops are never tracked; and a tensor produced by
\* an operation is not a variable
C23_TrackedIffOperandTracked ==
    /\ \A t \in DOMAIN tensors : Tracked(t) <=> DependsOnVariable(t)
    /\ (result.ok /\ result.op \in DerivingOps)
       => /\ ~tensors[result.t].is_variable
          /\ result.op \in UntrackedOps => ~Tracked(result.t)
          /\ result.op \notin UntrackedOps
                => (tensors[result.t].op.kind # "None"
                      <=> \E i \in DOMAIN result.args : Tracked(result.args[i]))

(***************************************************************************)
(* Pooling and chunking with kernels, strides and chunk counts of every    *)
(* size.                                                                   *)
(***************************************************************************)
PoolOps == {"avg_pool2d_with_stride", "max_pool2d_with_stride"}

\* the kernel fits the input and the strides are positive
PoolGeometryValid ==
    /\ result.p[1][1] <= ArgShape(1)[3] /\ result.p[1][2] <= ArgShape(1)[4]
    /\ result.p[2][1] > 0 /\ result.p[2][2] > 0

PooledShape ==
    <<ArgShape(1)[1], ArgShape(1)[2],
      (ArgShape(1)[3] - result.p[1][1]) \div result.p[2][1] + 1,
      (ArgShape(1)[4] - result.p[1][2]) \div result.p[2][2] + 1>>

\* C24: avg_pool2d_with_stride, max_pool2d_with_stride and chunk never panic and
\* never compute a wrapped dimension: a kernel larger than the input height or
\* width, a stride of 0 and chunks = 0 give a typed error, and valid pooling
\* arguments give the output dims (n, c, (h - kh) / sh + 1, (w - kw) / sw + 1)
C24_PoolChunkTyped ==
    /\ (result.op \in PoolOps /\ Len(result.args) = 1 /\ Len(ArgShape(1)) = 4)
       => /\ result.err # "Panic"
          /\ IF PoolGeometryValid
             THEN result.ok => tensors[result.t].layout.shape = PooledShape
             ELSE ~result.ok
    /\ result.op = "chunk"
       => /\ result.err # "Panic"
          /\ result.p[1] = 0 => ~result.ok

(***************************************************************************)
(* arange_step.                                                            *)
(***************************************************************************)
\* the values start, start + step, ... below end, in increasing order
ArangeExpected ==
    LET start == result.p[1]
        end == result.p[2]
        step == result.p[3]
        vals == {v \in start..(end - 1) : \E k \in 0..DTypeMod : v = start + k * step}
    IN  [n \in 1..Cardinality(vals) |->
            CHOOSE v \in vals : Cardinality({u \in vals : u < v}) = n - 1]

\* C25: for every start, end and step of an integer dtype, arange_step terminates
\* and returns the 1-D tensor holding exactly start, start + step, ... that are
\* below end (none when start >= end), no overflow affecting the result
C25_ArangeTerminatesExact ==
    /\ [](frame.pc = "while" => <>(frame.pc = "idle"))
    /\ [](result.op = "arange_step"
            => /\ result.ok
               /\ tensors[result.t].layout.shape = <<Len(ArangeExpected)>>
               /\ Elements(storages, tensors[result.t]) = ArangeExpected)

(***************************************************************************)
(* The recorded operation graph.                                           *)
(***************************************************************************)
\* the operands an Op edge of the heap refers to were created before the tensor and
\* carry a smaller TensorId
EdgesPointBack(heap) ==
    \A t \in DOMAIN heap :
        \A i \in DOMAIN heap[t].op.args :
            /\ heap[t].op.args[i] < t
            /\ heap[heap[t].op.args[i]].id < heap[t].id

\* C26: the recorded operation graph is acyclic and append-only: every operand of
\* an Op edge was created before the tensor carrying the edge and has a strictly
\* smaller TensorId, and no operation adds, removes or redirects an edge of a
\* tensor that exists already
C26_GraphAppendOnly ==
    [][ /\ EdgesPointBack(tensors')
        /\ \A t \in DOMAIN tensors :
              /\ t \in DOMAIN tensors'
              /\ tensors'[t].op = tensors[t].op
              /\ tensors'[t].id = tensors[t].id
      ]_vars

\* a variable, a tensor computed from it and a tensor computed from both
C26_Witness ==
    /\ Len(tensors) = 3
    /\ tensors[1].is_variable
    /\ tensors[2].op.args = <<1>>
    /\ tensors[3].op.args = <<2, 1>>
    /\ tensors[1].id < tensors[2].id /\ tensors[2].id < tensors[3].id

(***************************************************************************)
(* Deadlocks of threads blocked in lock requests.                          *)
(***************************************************************************)
\* the threads a blocked thread waits for
Blockers(th) ==
    LET lock == LockOf(waiting[th].t) IN
    IF waiting[th].mode = "read"
    THEN {g.th : g \in GuardsOn(lock, "write")}
            \cup (IF policy = "writers" THEN WritersWaiting(th, lock) ELSE {})
    ELSE {g.th : g \in HeldOn(lock)}

\* some blocked threads each wait for a thread among them: none is ever granted
Deadlocked ==
    \E S \in SUBSET Threads :
        /\ S # {}
        /\ \A th \in S : Blocked(th) /\ ~CanGrant(th) /\ Blockers(th) \cap S # {}

\* a thread requests the write guard of a storage it holds a read guard of, through
\* the same tensor or a view
SelfUpgrade ==
    \E th \in Threads :
        /\ waiting[th].mode = "write"
        /\ \E g \in guards :
              g.th = th /\ g.mode = "read" /\ LockOf(g.t) = LockOf(waiting[th].t)

\* a thread requests a guard of a storage it holds a conflicting guard of
SelfConflict ==
    \E th \in Threads :
        /\ Blocked(th)
        /\ \E g \in guards :
              /\ g.th = th /\ LockOf(g.t) = LockOf(waiting[th].t)
              /\ g.mode = "write" \/ waiting[th].mode = "write"

\* where writers are preferred: a thread requests a second read guard of a storage
\* while another thread's write request for it is waiting
ReadBehindWriter ==
    /\ policy = "writers"
    /\ \E th \in Threads :
          /\ waiting[th].mode = "read"
          /\ WritersWaiting(th, LockOf(waiting[th].t)) # {}
          /\ \E g \in guards :
                g.th = th /\ g.mode = "read" /\ LockOf(g.t) = LockOf(waiting[th].t)

\* a write guard is held or requested on the storage
WriterInvolved(lock) ==
    \/ GuardsOn(lock, "write") # {}
    \/ \E o \in Threads : waiting[o].mode = "write" /\ LockOf(waiting[o].t) = lock

\* a read request on a storage with no writer involved is granted
ReadsComplete ==
    \A th \in Threads :
        (waiting[th].mode = "read" /\ ~WriterInvolved(LockOf(waiting[th].t)))
            => CanGrant(th)

C28_CatMismatchFields ==
    (result.op = "cat" /\ result.err = "ShapeMismatchCat")
    => /\ result.info.n \in Operands
       /\ result.info.first_shape = ArgShape(1)
       /\ result.info.nth_shape = ArgShape(result.info.n)
       /\ result.info.dim # result.p[1]
       /\ result.info.dim < Len(ArgShape(1))
       /\ ArgShape(1)[result.info.dim + 1] # ArgShape(result.info.n)[result.info.dim + 1]

(***************************************************************************)
(* cat and stack of no operand and of one operand.                         *)
(***************************************************************************)
\* C29: cat and stack of an empty list fail with OpRequiresAtLeastOneTensor; cat
\* of exactly one tensor returns that tensor's own handle (same id, same storage,
\* no new graph node) for every value of dim, which it does not validate
C29_CatOfNoneAndOne ==
    [][ /\ (result'.op \in {"cat", "stack"} /\ Len(result'.args) = 0)
           => /\ ~result'.ok
              /\ result'.err = "OpRequiresAtLeastOneTensor"
              /\ tensors' = tensors
        /\ (result'.op = "cat" /\ Len(result'.args) = 1)
           => /\ result'.ok
              /\ result'.t = result'.args[1]
              /\ tensors' = tensors /\ storages' = storages /\ COUNTER' = COUNTER
      ]_vars

\* cat of one rank-1 tensor along dimension 1, which the tensor does not have
C29_Witness ==
    /\ result.op = "cat" /\ result.ok
    /\ Len(result.args) = 1
    /\ result.p = <<1>>
    /\ ArgShape(1) = <<2>>
    /\ result.t = result.args[1]

(***************************************************************************)
(* The tensors requested by the transposed convolution builders.           *)
(***************************************************************************)
ConvBuilders == {"conv_transpose2d", "conv_transpose2d_no_bias"}

\* C30: for the same in_channels, out_channels and kernel_size, conv_transpose2d
\* and conv_transpose2d_no_bias request a weight of the same shape (in_channels,
\* out_channels, kernel_size, kernel_size) from the variable store; they differ
\* only in that the no-bias builder requests no bias
C30_SameWeightShape ==
    (result.op \in ConvBuilders /\ result.ok)
    => /\ tensors[result.info.weight].layout.shape
             = <<result.p[1], result.p[2], result.p[3], result.p[3]>>
       /\ tensors[result.info.weight].is_variable
       /\ IF result.op = "conv_transpose2d"
          THEN tensors[result.info.bias].layout.shape = <<result.p[2]>>
          ELSE result.info.bias = 0

====
